---- MODULE Spec2Model ----
(***************************************************************************)
(* dj-redis-panel: the keyspace scanning and pagination engine of          *)
(* RedisPanelUtils (src/dj_redis_panel/redis_utils.py).                    *)
(*                                                                         *)
(* The model has one panel request in flight at a time (the panel is       *)
(* synchronous), stepped at the granularity of single Redis commands, a    *)
(* Redis server holding the keyspace, and another client of the same       *)
(* server whose commands interleave with the request's commands.  A caller *)
(* ("walk") follows the pagination links from one request to the next.     *)
(***************************************************************************)
EXTENDS Integers, Sequences, FiniteSets, TLC

VARIABLES
    db,          \* the Redis keyspace: key name -> key record
    nbuckets,    \* size of the server's hash table, i.e. of the SCAN cursor space
    disturbances, \* number of events of the environment so far: commands of
                 \* the other client, connection faults, SCAN redeliveries
    call,        \* the panel request in flight (op = "idle" when none)
    result,      \* the dict returned by the last finished request
    walk,        \* the caller following pagination links across requests
    other        \* a second client of the same server: its request in flight
                 \* and what the server answered it

vars == <<db, nbuckets, disturbances, call, result, walk, other>>

----------------------------------------------------------------------------
(* Bounds of the model *)

\* largest number of elements of a collection key
MaxColl == 4
\* largest number of events of the environment (commands of the other client,
\* connection faults, keys redelivered by SCAN) in one behaviour
MaxDisturbances == 1
\* largest size of the server's hash table
MaxBuckets == 4
\* largest number of requests the caller issues in one walk
MaxWalkCalls == 8
\* the largest total_pages a page range is computed for
MaxTotalPages == 13

(* Program constants.  The two caps of paginated_scan are scaled down      *)
(* (2000 SCAN calls -> 3, 100000 keys -> 4) so that the keyspace of the    *)
(* model can reach them; their roles in the code are unchanged.            *)
max_scan_iterations == 3
max_keys_paginated_scan == 4

----------------------------------------------------------------------------
(* Python values *)

\* Optional values: None is the empty tuple, a present value x is <<x>>.
None == <<>>
Some(x) == <<x>>

Min(a, b) == IF a < b THEN a ELSE b
Max(a, b) == IF a > b THEN a ELSE b

\* seq[start:end] of Python, negative indexes counted from the end
PySlice(s, start, end) ==
    LET n == Len(s)
        lo == IF start < 0 THEN Max(n + start, 0) ELSE Min(start, n)
        hi == IF end < 0 THEN Max(n + end, 0) ELSE Min(end, n)
    IN  IF lo >= hi THEN <<>> ELSE SubSeq(s, lo + 1, hi)

\* Every string of the model, in the lexicographic (code point) order that
\* Python's sort() and sorted() use for str.
LexOrder == << "", "a:1", "a:2", "b:1", "b:2", "c:1",
               "f1", "f2", "f3", "f4", "f5", "f6",
               "m1", "m2", "m3", "m4", "m5", "m6" >>

Rank(s) == CHOOSE i \in 1..Len(LexOrder) : LexOrder[i] = s

\* the sorted list: position j holds the string of the least rank r such
\* that at least j entries of s have a rank up to r
SortedList(s) ==
    IF s = <<>> THEN <<>>
    ELSE [ j \in 1..Len(s) |->
             LexOrder[ CHOOSE r \in 1..Len(LexOrder) :
                 /\ Cardinality({ i \in DOMAIN s : Rank(s[i]) < r }) < j
                 /\ j <= Cardinality({ i \in DOMAIN s : Rank(s[i]) <= r }) ] ]

\* list.sort() on a list of str (the argument is evaluated once)
SortStrings(s) == CHOOSE t \in { SortedList(v) : v \in {s} } : TRUE

Range(s) == { s[i] : i \in DOMAIN s }

\* dict.update(): the entries of d, replaced or extended by those of u
Update(d, u) ==
    [ f \in DOMAIN d \cup DOMAIN u |-> IF f \in DOMAIN u THEN u[f] ELSE d[f] ]

NoDuplicates(s) == \A i, j \in DOMAIN s : i # j => s[i] # s[j]

\* len(str(value)): the number of characters of a string value
StrLen(s) ==
    CASE s = "" -> 0
      [] s = "h\\xe9llo" -> 5
      [] OTHER -> 2

\* len(str(value).encode("utf-8")): the byte length of a string value
Utf8Len(s) ==
    CASE s = "" -> 0
      [] s = "h\\xe9llo" -> 6
      [] OTHER -> 2

----------------------------------------------------------------------------
(* The Redis server *)

KeyNames == { "", "a:1", "a:2", "b:1", "b:2", "c:1" }

NoKey == [ type |-> "none", ttl |-> -2, str |-> "", list |-> <<>>,
           set |-> {}, zset |-> {}, hash |-> {} ]

ListBase == << "m3", "m1", "m3", "m2", "m5", "m4" >>
SetBase  == << "m1", "m2", "m3", "m4", "m5", "m6" >>
ZsetBase == << <<"m1", 2>>, <<"m2", 1>>, <<"m3", 2>>,
               <<"m4", 0>>, <<"m5", 1>>, <<"m6", 3>> >>
HashBase == << <<"f1", "m2">>, <<"f2", "m1">>, <<"f3", "m2">>,
               <<"f4", "m6">>, <<"f5", "m3">>, <<"f6", "m4">> >>

\* The keyspace the model starts from: one key of each type (two strings,
\* one of them under the empty key name), every collection with n elements,
\* and TTL replies -1 (no expiry), 0 (expiring within the second) and > 0.
InitialKey(k, n) ==
    CASE k = ""    -> [NoKey EXCEPT !.type = "string", !.ttl = -1, !.str = ""]
      [] k = "a:1" -> [NoKey EXCEPT !.type = "string", !.ttl = 30,
                                    !.str = "h\\xe9llo"]
      [] k = "a:2" -> [NoKey EXCEPT !.type = "list", !.ttl = 0,
                                    !.list = SubSeq(ListBase, 1, n)]
      [] k = "b:1" -> [NoKey EXCEPT !.type = "set", !.ttl = -1,
                                    !.set = Range(SubSeq(SetBase, 1, n))]
      [] k = "b:2" -> [NoKey EXCEPT !.type = "zset", !.ttl = 7,
                                    !.zset = Range(SubSeq(ZsetBase, 1, n))]
      [] k = "c:1" -> [NoKey EXCEPT !.type = "hash", !.ttl = -1,
                                    !.hash = Range(SubSeq(HashBase, 1, n))]

Exists(k) == db[k].type # "none"

\* glob matching of SCAN's MATCH option, for the patterns of the model
Patterns == { "*", "a:*", "zz*" }
Matches(pattern, k) ==
    CASE pattern = "*"   -> TRUE
      [] pattern = "a:*" -> k \in { "a:1", "a:2" }
      [] OTHER           -> FALSE

MatchingKeys(pattern) == { k \in KeyNames : Exists(k) /\ Matches(pattern, k) }

\* the hash-table bucket a key lives in
Bucket(k, nb) == (Rank(k) * 5 + 1) % nb

\* the keys of one bucket, in the server's (unsorted) delivery order
DescendingList(S) ==
    IF S = {} THEN <<>>
    ELSE [ j \in 1..Cardinality(S) |->
             CHOOSE x \in S :
                 Cardinality({ y \in S : Rank(y) > Rank(x) }) = j - 1 ]

SetToSeqDesc(S) == CHOOSE t \in { DescendingList(V) : V \in {S} } : TRUE

BucketKeys(b, pattern) ==
    SetToSeqDesc({ k \in MatchingKeys(pattern) : Bucket(k, nbuckets) = b })

\* SCAN cursor MATCH pattern COUNT n.  One call visits one bucket and
\* returns the cursor of the next one, 0 after the last.  COUNT is only a
\* hint.  A full iteration returns every key present throughout at least
\* once; the server may return a key more than once (redeliver: the keys of
\* the bucket visited before are returned again, as after a table resize).
Scan(cursor, pattern, redeliver) ==
    LET b == cursor % nbuckets
        again == IF redeliver /\ b > 0 THEN BucketKeys(b - 1, pattern) ELSE <<>>
    IN  [ cursor |-> IF b + 1 < nbuckets THEN b + 1 ELSE 0,
          keys   |-> BucketKeys(b, pattern) \o again ]

\* EXISTS key
ExistsCmd(k) == Exists(k)

\* the elements start..stop of a list, both inclusive, negative indexes
\* counted from the end (LRANGE, ZRANGE)
RedisRange(s, start, stop) ==
    LET n == Len(s)
        lo == IF start < 0 THEN Max(n + start, 0) ELSE start
        hi == IF stop < 0 THEN n + stop ELSE Min(stop, n - 1)
    IN  IF lo > hi \/ lo >= n THEN <<>> ELSE SubSeq(s, lo + 1, hi + 1)

\* LRANGE key start stop
LRange(k, start, stop) == RedisRange(db[k].list, start, stop)

\* a sorted set in its order: by score, then by member
ZsetBefore(p, q) == p[2] < q[2] \/ (p[2] = q[2] /\ Rank(p[1]) < Rank(q[1]))
ZsetList(Z) ==
    IF Z = {} THEN <<>>
    ELSE [ j \in 1..Cardinality(Z) |->
             CHOOSE p \in Z :
                 Cardinality({ q \in Z : ZsetBefore(q, p) }) = j - 1 ]
ZsetOrder(Z) == CHOOSE t \in { ZsetList(V) : V \in {Z} } : TRUE

\* ZRANGE key start stop WITHSCORES
ZRange(k, start, stop) ==
    CHOOSE t \in { RedisRange(v, start, stop) : v \in { ZsetOrder(db[k].zset) } } :
        TRUE

\* SMEMBERS key, in the order the reply lists the members
SMembers(k) == SetToSeqDesc(db[k].set)

\* field/value pairs in the server's (unsorted) delivery order
PairsList(H) ==
    IF H = {} THEN <<>>
    ELSE [ j \in 1..Cardinality(H) |->
             CHOOSE p \in H :
                 Cardinality({ q \in H : Rank(q[1]) > Rank(p[1]) }) = j - 1 ]
PairsDesc(H) == CHOOSE t \in { PairsList(V) : V \in {H} } : TRUE

\* HGETALL key: the dict, as the list of its items
HGetAll(k) == PairsDesc(db[k].hash)

\* the members (or field/value pairs) of a collection that live in bucket b,
\* in delivery order
BucketMembers(S, b) ==
    SetToSeqDesc({ m \in S : Bucket(m, nbuckets) = b })
BucketPairs(H, b) ==
    PairsDesc({ p \in H : Bucket(p[1], nbuckets) = b })

\* SSCAN key cursor COUNT n: as SCAN, over the members of one set
SScan(k, cursor, redeliver) ==
    LET b == cursor % nbuckets
        again == IF redeliver /\ b > 0 THEN BucketMembers(db[k].set, b - 1)
                 ELSE <<>>
    IN  [ cursor |-> IF b + 1 < nbuckets /\ Exists(k) THEN b + 1 ELSE 0,
          members |-> BucketMembers(db[k].set, b) \o again ]

\* HSCAN key cursor COUNT n: as SCAN, over the fields of one hash; the reply
\* is a dict, given as the list of its items
HScan(k, cursor, redeliver) ==
    LET b == cursor % nbuckets
        again == IF redeliver /\ b > 0 THEN BucketPairs(db[k].hash, b - 1)
                 ELSE <<>>
    IN  [ cursor |-> IF b + 1 < nbuckets /\ Exists(k) THEN b + 1 ELSE 0,
          members |-> BucketPairs(db[k].hash, b) \o again ]

\* TYPE key
TypeCmd(k) == db[k].type
\* TTL key: -2 for a missing key, -1 for a key without expiry
TtlCmd(k) == db[k].ttl

\* A collection that loses its last element stops existing.
Emptied(rec) ==
    IF \/ rec.type = "list" /\ rec.list = <<>>
       \/ rec.type = "set" /\ rec.set = {}
       \/ rec.type = "zset" /\ rec.zset = {}
       \/ rec.type = "hash" /\ rec.hash = {}
    THEN NoKey ELSE rec

\* LREM key 1 value: the first occurrence of value is removed
LRem(rec, value) ==
    LET at == { i \in DOMAIN rec.list : rec.list[i] = value }
        first == CHOOSE i \in at : \A j \in at : i <= j
    IN  IF at = {} THEN rec
        ELSE Emptied([ rec EXCEPT
                 !.list = SubSeq(@, 1, first - 1)
                          \o SubSeq(@, first + 1, Len(@)) ])

\* HEXISTS key field, ZSCORE key member is not None, and what the replies
\* of SADD, ZADD, HSET, SREM, ZREM and HDEL tell: the collection holds the
\* member or field
Holds(rec, member) ==
    \/ member \in rec.set
    \/ \E p \in rec.zset : p[1] = member
    \/ \E p \in rec.hash : p[1] = member

----------------------------------------------------------------------------
(* Configuration: DJ_REDIS_PANEL_SETTINGS["INSTANCES"] *)

\* The instances: "local" takes every feature from the global settings, which
\* enable editing and TTL updates and say nothing of deleting; "readonly"
\* disables editing and TTL updates and enables deleting for itself.
INSTANCES ==
    [ local     |-> [ type |-> "single", features |-> << >> ],
      readonly  |-> [ type |-> "single",
                      features |-> [ ALLOW_KEY_EDIT |-> FALSE,
                                     ALLOW_TTL_UPDATE |-> FALSE,
                                     ALLOW_KEY_DELETE |-> TRUE ] ],
      cluster1  |-> [ type |-> "cluster", features |-> << >> ],
      sentinel1 |-> [ type |-> "sentinel", features |-> << >> ] ]

\* the global entries of DJ_REDIS_PANEL_SETTINGS; no function of the source
\* reads MAX_SCAN_ITERATIONS
PANEL_SETTINGS ==
    [ ALLOW_KEY_EDIT |-> TRUE, ALLOW_TTL_UPDATE |-> TRUE,
      CURSOR_PAGINATED_SCAN |-> FALSE,
      MAX_SCAN_ITERATIONS |-> 2 ]

\* faulty variant: the global setting is looked at before the instance's own
FeatureEnabledGlobalFirst(panel_settings, instance_alias, feature_name) ==
    LET instances == panel_settings.INSTANCES
        instance_config == instances[instance_alias]
        instance_features == IF "features" \in DOMAIN instance_config
                             THEN instance_config.features ELSE << >>
    IN  IF instance_alias \notin DOMAIN instances THEN FALSE
        ELSE IF feature_name \in DOMAIN panel_settings
        THEN panel_settings[feature_name]
        ELSE IF feature_name \in DOMAIN instance_features
        THEN instance_features[feature_name]
        ELSE FALSE

\* is_feature_enabled under given DJ_REDIS_PANEL_SETTINGS: the instance's own
\* setting, else the global one, else False.  The settings of the model are
\* Booleans, which bool() returns as they are.
FeatureEnabled(panel_settings, instance_alias, feature_name) ==
    LET instances == panel_settings.INSTANCES
        instance_config == instances[instance_alias]
        instance_features == IF "features" \in DOMAIN instance_config
                             THEN instance_config.features ELSE << >>
    IN  IF instance_alias \notin DOMAIN instances THEN FALSE
        ELSE IF feature_name \in DOMAIN instance_features
        THEN instance_features[feature_name]
        ELSE IF feature_name \in DOMAIN panel_settings
        THEN panel_settings[feature_name]
        ELSE FALSE

\* is_feature_enabled under the settings of the model
is_feature_enabled(instance_alias, feature_name) ==
    FeatureEnabled(Update(PANEL_SETTINGS, [ INSTANCES |-> INSTANCES ]),
                   instance_alias, feature_name)

Aliases == { "local", "cluster1", "sentinel1", "missing" }

\* f"Unsupported Redis connection type: {connection_type}"
Unsupported(connection_type) ==
    CASE connection_type = "cluster" ->
             "Unsupported Redis connection type: cluster"
      [] connection_type = "sentinel" ->
             "Unsupported Redis connection type: sentinel"
      [] OTHER -> "Unsupported Redis connection type"

\* faulty variant: a connection is made for every configured instance
get_redis_connection_of_any_type(instance_alias) ==
    IF instance_alias \notin DOMAIN INSTANCES
    THEN "Redis instance not found in configuration"
    ELSE "ok"

\* get_redis_connection: "ok", or the ValueError it raises
get_redis_connection(instance_alias) ==
    IF instance_alias \notin DOMAIN INSTANCES
    THEN "Redis instance not found in configuration"
    ELSE IF INSTANCES[instance_alias].type = "single" THEN "ok"
    ELSE Unsupported(INSTANCES[instance_alias].type)

----------------------------------------------------------------------------
(* Requests, results and the caller *)

IdleCall ==
    [ op |-> "idle", pc |-> "", instance_alias |-> "", pattern |-> "",
      page |-> 0, per_page |-> 0, cursor_arg |-> 0,
      cursor |-> 0, all_keys |-> <<>>, scan_iterations |-> 0,
      page_keys |-> <<>>, idx |-> 0, key_type |-> "", ttl |-> 0,
      keys_with_details |-> <<>>,
      key_name |-> "", pagination_threshold |-> 0,
      use_cursor_pagination |-> FALSE,
      key_size |-> 0, scan_cursor |-> 0, all_members |-> <<>>,
      gkd_type |-> "", gkd_ttl |-> 0, gkd_value |-> None, gkd_size |-> 0,
      member |-> "", value |-> "", score |-> 0, index |-> 0,
      position |-> "", new_type |-> "",
      action |-> "", new_ttl |-> "", index_arg |-> "", new_score |-> "",
      panel_settings |-> << >>, feature_name |-> "", total_pages |-> 0,
      before |-> << >>, \* history: the keyspace when the request started
      validated |-> << >>, \* history: the list when LLEN measured it
      sscan_calls |-> 0,   \* history: the SSCAN commands the set loop sent
      fault |-> "",    \* history: the stage at which a command last raised
      lost |-> {} ]    \* history: keys deleted by the other client after the
                       \* page was cut and before their details were fetched,
                       \* or while get_paginated_key_data was reading them

NoResult == [ op |-> "none", args |-> IdleCall, dict |-> [ error |-> None ] ]

NoWalk == [ kind |-> "none", acc |-> <<>>, calls |-> 0,
            static |-> TRUE, failed |-> FALSE, done |-> FALSE ]

\* the value the second client pushes
OtherValue == "m7"

\* the second client before it has sent a command
NoOther == [ pc |-> "", key_name |-> "", new_type |-> "", seen |-> <<>>,
             returned |-> <<>> ]

Init ==
    /\ \E n \in (MaxColl - 1)..MaxColl :
          db = [ k \in KeyNames |-> InitialKey(k, n) ]
    /\ nbuckets \in 2..MaxBuckets
    /\ disturbances = 0
    /\ call = IdleCall
    /\ result = NoResult
    /\ walk = NoWalk
    /\ other = NoOther

\* an event of the environment happens / none happens in this step
Disturbed == disturbances < MaxDisturbances /\ disturbances' = disturbances + 1
Calm == disturbances' = disturbances

\* The caller takes the returned dict: a walk appends the page and decides
\* whether another request follows.
WalkAfter(dict) ==
    CASE walk.kind = "scan_pages" ->
            [ walk EXCEPT !.acc = @ \o dict.keys,
                          !.calls = @ + 1,
                          !.failed = dict.error # None,
                          !.done = dict.error # None
                                   \/ ~(dict.page < dict.total_pages) ]
      [] walk.kind = "scan_cursor" ->
            [ walk EXCEPT !.acc = @ \o dict.keys,
                          !.calls = @ + 1,
                          !.failed = dict.error # None,
                          !.done = ~dict.has_more ]
      [] walk.kind \in { "coll_pages", "coll_cursor" } ->
            [ walk EXCEPT !.acc = IF dict.value # None
                                     /\ dict.type # Some("string")
                                  THEN @ \o dict.value[1] ELSE @,
                          !.calls = @ + 1,
                          !.failed = dict.error # None,
                          !.done = ~dict.has_more ]
      [] walk.kind = "scan_again" ->
            [ walk EXCEPT !.acc = Append(@, dict),
                          !.calls = @ + 1,
                          !.failed = @ \/ dict.error # None,
                          !.done = walk.calls + 1 >= 2 ]
      [] walk.kind = "single" ->
            [ walk EXCEPT !.calls = @ + 1,
                          !.failed = dict.error # None,
                          !.done = TRUE ]
      [] walk.kind = "post" ->
            [ walk EXCEPT !.calls = @ + 1,
                          !.failed = dict.error_message # None,
                          !.done = TRUE ]
      [] OTHER -> walk

\* the response of the key detail view: the status and the messages of the
\* rendered context
Response(status, success_message, error_message) ==
    [ status |-> status, success_message |-> success_message,
      error_message |-> error_message ]

\* The member handlers of the view turn the dict of the function they called
\* into the messages of the page; _get_key_data(), called again for the page,
\* reads only.
HandlerResponse(c, dict) ==
    IF dict.success
    THEN Response(200,
             IF "message" \in DOMAIN dict THEN Some(dict.message)
             ELSE Some("New item added to "
                       \o (IF c.position = "start" THEN "beginning" ELSE "end")
                       \o " of list"),
             None)
    ELSE Response(200, None, dict.error)

\* the request, its locals being c, returns dict to its caller; a function
\* called by a handler of the view returns to the handler, which returns the
\* response
ReturnFrom(c, dict) ==
    LET handled == c.action # "" /\ "success" \in DOMAIN dict
        returned == IF handled THEN HandlerResponse(c, dict) ELSE dict
    IN  /\ result' = [ op |-> IF handled THEN "post" ELSE c.op,
                       args |-> c, dict |-> returned ]
        /\ call' = IdleCall
        /\ walk' = WalkAfter(returned)
        /\ UNCHANGED other

Return(dict) == ReturnFrom(call, dict)

\* a command raised at the given stage and the handler's except branch
\* returns dict
Raise(stage, dict) == ReturnFrom([ call EXCEPT !.fault = stage ], dict)

\* the request goes on to its next command
Goto(c) == call' = c /\ UNCHANGED <<result, walk, other>>

----------------------------------------------------------------------------
(* paginated_scan *)

\* faulty variant: the except branch keeps the count of the keys scanned so far
PaginatedScanErrorKeepsTotal(c, e) ==
    [ keys |-> <<>>, keys_with_details |-> <<>>, total_keys |-> Len(c.all_keys),
      page |-> c.page, per_page |-> c.per_page, total_pages |-> 0,
      has_more |-> FALSE, scan_complete |-> FALSE, limited_scan |-> FALSE,
      error |-> Some(e) ]

\* the dict of the except branch
PaginatedScanError(c, e) ==
    [ keys |-> <<>>, keys_with_details |-> <<>>, total_keys |-> 0,
      page |-> c.page, per_page |-> c.per_page, total_pages |-> 0,
      has_more |-> FALSE, scan_complete |-> FALSE, limited_scan |-> FALSE,
      error |-> Some(e) ]

\* faulty variant: total_pages = total_keys // per_page
PaginatedScanResultFloors(c) ==
    LET total_keys == Len(c.all_keys)
        total_pages == IF total_keys > 0
                       THEN total_keys \div c.per_page
                       ELSE 1
    IN  [ keys |-> c.page_keys,
          keys_with_details |-> c.keys_with_details,
          total_keys |-> total_keys,
          page |-> c.page, per_page |-> c.per_page,
          total_pages |-> total_pages,
          has_more |-> c.page < total_pages,
          scan_complete |-> c.cursor = 0,
          limited_scan |-> Len(c.all_keys) >= max_keys_paginated_scan,
          error |-> None ]

\* the dict of the try branch
PaginatedScanResult(c) ==
    LET total_keys == Len(c.all_keys)
        total_pages == IF total_keys > 0
                       THEN (total_keys + c.per_page - 1) \div c.per_page
                       ELSE 1
    IN  [ keys |-> c.page_keys,
          keys_with_details |-> c.keys_with_details,
          total_keys |-> total_keys,
          page |-> c.page, per_page |-> c.per_page,
          total_pages |-> total_pages,
          has_more |-> c.page < total_pages,
          scan_complete |-> c.cursor = 0,
          limited_scan |-> Len(c.all_keys) >= max_keys_paginated_scan,
          error |-> None ]

\* faulty variant: the loop is while True, left at cursor 0 or at the key cap
ScanLoopUncounted(cursor, all_keys, scan_iterations) ==
    /\ cursor # 0
    /\ ~(Len(all_keys) >= max_keys_paginated_scan)

\* whether the scan loop goes round again after a SCAN reply
ScanLoopContinues(cursor, all_keys, scan_iterations) ==
    /\ cursor # 0
    /\ ~(Len(all_keys) >= max_keys_paginated_scan)
    /\ scan_iterations < max_scan_iterations

\* the page is all_keys[start_index:end_index]
PageOf(all_keys, page, per_page) ==
    LET start_index == (page - 1) * per_page
        end_index == start_index + per_page
    IN  PySlice(all_keys, start_index, end_index)

\* faulty variant: a TTL reply of 0 is kept as a number
NormalizeTtlKeepsZero(ttl) == IF ttl >= 0 THEN Some(ttl) ELSE None

\* ttl if ttl > 0 else None
NormalizeTtl(ttl) == IF ttl > 0 THEN Some(ttl) ELSE None

\* The caller requests page 1 and follows the pages up to total_pages.
StartScanWalk ==
    /\ call.op = "idle" /\ walk.kind = "none"
    /\ \E a \in Aliases, p \in Patterns, pp \in 1..2 :
          call' = [ IdleCall EXCEPT !.op = "paginated_scan", !.pc = "connect",
                                    !.instance_alias = a, !.pattern = p,
                                    !.page = 1, !.per_page = pp ]
    /\ walk' = [ NoWalk EXCEPT !.kind = "scan_pages" ]
    /\ result' = NoResult
    /\ UNCHANGED <<db, nbuckets, disturbances, other>>

ContinueScanWalk ==
    /\ call.op = "idle" /\ walk.kind = "scan_pages" /\ ~walk.done
    /\ walk.calls < MaxWalkCalls
    /\ result.op = "paginated_scan"
    /\ call' = [ IdleCall EXCEPT !.op = "paginated_scan", !.pc = "connect",
                                 !.instance_alias = result.args.instance_alias,
                                 !.pattern = result.args.pattern,
                                 !.page = result.args.page + 1,
                                 !.per_page = result.args.per_page ]
    /\ result' = NoResult
    /\ UNCHANGED <<db, nbuckets, disturbances, walk, other>>

\* The caller requests one page, and then the same page again with the same
\* arguments.  The page is the number of the query string, which the view
\* parses with int() and passes on as it is: it may be zero or negative.
StartRepeatedScan ==
    /\ call.op = "idle" /\ walk.kind = "none"
    /\ \E a \in Aliases, p \in Patterns, page \in -1..2, pp \in 1..2 :
          call' = [ IdleCall EXCEPT !.op = "paginated_scan", !.pc = "connect",
                                    !.instance_alias = a, !.pattern = p,
                                    !.page = page, !.per_page = pp ]
    /\ walk' = [ NoWalk EXCEPT !.kind = "scan_again" ]
    /\ result' = NoResult
    /\ UNCHANGED <<db, nbuckets, disturbances, other>>

RepeatScan ==
    /\ call.op = "idle" /\ walk.kind = "scan_again" /\ ~walk.done
    /\ result.op = "paginated_scan"
    /\ call' = [ IdleCall EXCEPT !.op = "paginated_scan", !.pc = "connect",
                                 !.instance_alias = result.args.instance_alias,
                                 !.pattern = result.args.pattern,
                                 !.page = result.args.page,
                                 !.per_page = result.args.per_page ]
    /\ result' = NoResult
    /\ UNCHANGED <<db, nbuckets, disturbances, walk, other>>

\* redis_conn = cls.get_redis_connection(instance_alias); redis_conn.select(db_number)
PS_Connect ==
    /\ call.op = "paginated_scan" /\ call.pc = "connect"
    /\ LET conn == get_redis_connection(call.instance_alias)
       IN  IF conn # "ok"
           THEN Raise("connect", PaginatedScanError(call, conn)) /\ Calm
           ELSE \/ Raise("connect", PaginatedScanError(call, "Connection refused"))
                   /\ Disturbed
                \/ Goto([ call EXCEPT !.pc = "scan", !.cursor = 0,
                                      !.all_keys = <<>>,
                                      !.scan_iterations = 0 ])
                   /\ Calm
    /\ UNCHANGED <<db, nbuckets>>

\* one round of the scan loop; after the last round the keys are sorted
\* (all_keys.sort()) and the page is cut
ScanRound(c, reply) ==
    LET all_keys == c.all_keys \o reply.keys
        scan_iterations == c.scan_iterations + 1
    IN  IF ScanLoopContinues(reply.cursor, all_keys, scan_iterations)
        THEN [ c EXCEPT !.cursor = reply.cursor,
                        !.all_keys = all_keys,
                        !.scan_iterations = scan_iterations ]
        ELSE [ c EXCEPT !.cursor = reply.cursor,
                        !.all_keys = SortStrings(all_keys),
                        !.scan_iterations = scan_iterations,
                        !.page_keys = PageOf(SortStrings(all_keys),
                                             c.page, c.per_page),
                        !.keys_with_details = <<>>,
                        !.idx = 1,
                        !.pc = "type" ]

PS_Scan ==
    /\ call.op = "paginated_scan" /\ call.pc = "scan"
    /\ \/ Raise("scan", PaginatedScanError(call, "Connection lost")) /\ Disturbed
       \/ \E reply \in { Scan(call.cursor, call.pattern, FALSE) } :
             Goto(ScanRound(call, reply)) /\ Calm
       \/ /\ call.cursor # 0
          /\ \E reply \in { Scan(call.cursor, call.pattern, TRUE) } :
                Goto(ScanRound(call, reply)) /\ Disturbed
    /\ UNCHANGED <<db, nbuckets>>

InDetailLoop ==
    /\ call.op \in { "paginated_scan", "cursor_paginated_scan" }
    /\ call.idx <= Len(call.page_keys)

\* an exception inside the per-key try: the key is skipped
SkipKey == [ call EXCEPT !.idx = @ + 1, !.pc = "type", !.fault = "detail" ]

\* key_type = redis_conn.type(key)
Detail_Type ==
    /\ InDetailLoop /\ call.pc = "type"
    /\ \/ Goto(SkipKey) /\ Disturbed
       \/ Goto([ call EXCEPT !.key_type = TypeCmd(call.page_keys[call.idx]),
                             !.pc = "ttl" ])
          /\ Calm
    /\ UNCHANGED <<db, nbuckets>>

\* ttl = redis_conn.ttl(key)
Detail_Ttl ==
    /\ InDetailLoop /\ call.pc = "ttl"
    /\ \/ Goto(SkipKey) /\ Disturbed
       \/ Goto([ call EXCEPT !.ttl = TtlCmd(call.page_keys[call.idx]),
                             !.pc = "size" ])
          /\ Calm
    /\ UNCHANGED <<db, nbuckets>>

RedisTypes == { "string", "list", "set", "zset", "hash" }

\* GET / LLEN / SCARD / ZCARD / HLEN answer WRONGTYPE for a key of another type
WrongType(key_type, k) == db[k].type \notin { key_type, "none" }

\* the size the code derives from the type it has read: the byte length of
\* GET's reply (or of "" for a missing key), or LLEN / SCARD / ZCARD / HLEN
SizeCmd(key_type, k) ==
    CASE key_type = "string" -> Utf8Len(db[k].str)
      [] key_type = "list"   -> Len(db[k].list)
      [] key_type = "set"    -> Cardinality(db[k].set)
      [] key_type = "zset"   -> Cardinality(db[k].zset)
      [] key_type = "hash"   -> Cardinality(db[k].hash)
      [] OTHER               -> 0

\* the size command, and keys_with_details.append({...})
Detail_Size ==
    /\ InDetailLoop /\ call.pc = "size"
    /\ LET key == call.page_keys[call.idx]
       IN  \/ /\ call.key_type \in RedisTypes
              /\ Goto(SkipKey) /\ Disturbed
           \/ /\ call.key_type \in RedisTypes /\ WrongType(call.key_type, key)
              /\ Goto(SkipKey) /\ Calm
           \/ /\ ~(call.key_type \in RedisTypes /\ WrongType(call.key_type, key))
              /\ Goto([ call EXCEPT
                    !.keys_with_details =
                        Append(@, [ key  |-> key,
                                    type |-> call.key_type,
                                    ttl  |-> NormalizeTtl(call.ttl),
                                    size |-> SizeCmd(call.key_type, key) ]),
                    !.idx = @ + 1,
                    !.pc = "type" ])
              /\ Calm
    /\ UNCHANGED <<db, nbuckets>>

PS_Return ==
    /\ call.op = "paginated_scan" /\ call.pc = "type"
    /\ call.idx > Len(call.page_keys)
    /\ Return(PaginatedScanResult(call)) /\ Calm
    /\ UNCHANGED <<db, nbuckets>>

----------------------------------------------------------------------------
(* cursor_paginated_scan *)

\* faulty variant: the except branch reports cursor 0 as the cursor used
CursorScanErrorForgetsCursor(c, e) ==
    [ keys |-> <<>>, keys_with_details |-> <<>>, total_keys |-> 0,
      page |-> 1, per_page |-> c.per_page, total_pages |-> 0,
      has_more |-> FALSE, scan_complete |-> FALSE, limited_scan |-> FALSE,
      next_cursor |-> 0, current_cursor |-> 0,
      error |-> Some(e) ]

\* the dict of the except branch
CursorScanError(c, e) ==
    [ keys |-> <<>>, keys_with_details |-> <<>>, total_keys |-> 0,
      page |-> 1, per_page |-> c.per_page, total_pages |-> 0,
      has_more |-> FALSE, scan_complete |-> FALSE, limited_scan |-> FALSE,
      next_cursor |-> 0, current_cursor |-> c.cursor_arg,
      error |-> Some(e) ]

\* faulty variant: has_more = not scan_complete or len(page_keys) > 0
CursorHasMoreOr(scan_complete, page_keys) ==
    ~scan_complete \/ Len(page_keys) > 0

\* faulty variant: has_more = not scan_complete
CursorHasMoreIgnoresEmpty(scan_complete, page_keys) == ~scan_complete

\* has_more = not scan_complete and len(page_keys) > 0
CursorHasMore(scan_complete, page_keys) ==
    ~scan_complete /\ Len(page_keys) > 0

\* faulty variant: the try branch numbers the pages of a cursor walk
CursorScanResultNumbersPages(c) ==
    LET scan_complete == c.cursor = 0
        has_more == CursorHasMore(scan_complete, c.page_keys)
    IN  [ keys |-> c.page_keys,
          keys_with_details |-> c.keys_with_details,
          total_keys |-> Len(c.page_keys),
          page |-> c.cursor_arg + 1, per_page |-> c.per_page,
          total_pages |-> c.cursor_arg + 1,
          has_more |-> has_more,
          scan_complete |-> scan_complete,
          limited_scan |-> FALSE,
          next_cursor |-> c.cursor,
          current_cursor |-> c.cursor_arg,
          error |-> None ]

\* the dict of the try branch
CursorScanResult(c) ==
    LET scan_complete == c.cursor = 0
        has_more == CursorHasMore(scan_complete, c.page_keys)
        estimated_total == IF has_more
                           THEN Max(Len(c.page_keys), c.per_page)
                           ELSE Len(c.page_keys)
    IN  [ keys |-> c.page_keys,
          keys_with_details |-> c.keys_with_details,
          total_keys |-> estimated_total,
          page |-> 1, per_page |-> c.per_page, total_pages |-> 1,
          has_more |-> has_more,
          scan_complete |-> scan_complete,
          limited_scan |-> FALSE,
          next_cursor |-> c.cursor,
          current_cursor |-> c.cursor_arg,
          error |-> None ]

\* page_keys = [k for k in partial_keys if k]
FilterKeys(partial_keys) == SelectSeq(partial_keys, LAMBDA k : k # "")

\* The caller requests cursor 0 and follows next_cursor while has_more.
StartCursorWalk ==
    /\ call.op = "idle" /\ walk.kind = "none"
    /\ \E a \in Aliases, p \in Patterns, pp \in 1..2 :
          call' = [ IdleCall EXCEPT !.op = "cursor_paginated_scan",
                                    !.pc = "connect",
                                    !.instance_alias = a, !.pattern = p,
                                    !.per_page = pp, !.cursor_arg = 0 ]
    /\ walk' = [ NoWalk EXCEPT !.kind = "scan_cursor" ]
    /\ result' = NoResult
    /\ UNCHANGED <<db, nbuckets, disturbances, other>>

ContinueCursorWalk ==
    /\ call.op = "idle" /\ walk.kind = "scan_cursor" /\ ~walk.done
    /\ walk.calls < MaxWalkCalls
    /\ result.op = "cursor_paginated_scan"
    /\ call' = [ IdleCall EXCEPT !.op = "cursor_paginated_scan",
                                 !.pc = "connect",
                                 !.instance_alias = result.args.instance_alias,
                                 !.pattern = result.args.pattern,
                                 !.per_page = result.args.per_page,
                                 !.cursor_arg = result.dict.next_cursor ]
    /\ result' = NoResult
    /\ UNCHANGED <<db, nbuckets, disturbances, walk, other>>

\* redis_conn = cls.get_redis_connection(instance_alias); redis_conn.select(db_number)
CPS_Connect ==
    /\ call.op = "cursor_paginated_scan" /\ call.pc = "connect"
    /\ LET conn == get_redis_connection(call.instance_alias)
       IN  IF conn # "ok"
           THEN Raise("connect", CursorScanError(call, conn)) /\ Calm
           ELSE \/ Raise("connect", CursorScanError(call, "Connection refused"))
                   /\ Disturbed
                \/ Goto([ call EXCEPT !.pc = "scan",
                                      !.cursor = call.cursor_arg ])
                   /\ Calm
    /\ UNCHANGED <<db, nbuckets>>

\* the one SCAN of the page, the filter and page_keys.sort()
CursorScanRound(c, reply) ==
    [ c EXCEPT !.cursor = reply.cursor,
               !.page_keys = SortStrings(FilterKeys(reply.keys)),
               !.keys_with_details = <<>>,
               !.idx = 1,
               !.pc = "type" ]

CPS_Scan ==
    /\ call.op = "cursor_paginated_scan" /\ call.pc = "scan"
    /\ \/ Raise("scan", CursorScanError(call, "Connection lost")) /\ Disturbed
       \/ \E reply \in { Scan(call.cursor, call.pattern, FALSE) } :
             Goto(CursorScanRound(call, reply)) /\ Calm
       \/ /\ call.cursor # 0
          /\ \E reply \in { Scan(call.cursor, call.pattern, TRUE) } :
                Goto(CursorScanRound(call, reply)) /\ Disturbed
    /\ UNCHANGED <<db, nbuckets>>

CPS_Return ==
    /\ call.op = "cursor_paginated_scan" /\ call.pc = "type"
    /\ call.idx > Len(call.page_keys)
    /\ Return(CursorScanResult(call)) /\ Calm
    /\ UNCHANGED <<db, nbuckets>>

----------------------------------------------------------------------------
(* get_key_data, called by the views and by get_paginated_key_data *)

CollectionKeys == { k \in KeyNames : InitialKey(k, 1).type # "string" }

\* the dict for a key that does not exist
KeyDataNotFound(c) ==
    [ name |-> c.key_name, type |-> None, ttl |-> None, size |-> 0,
      value |-> None, exists |-> FALSE, error |-> None ]

\* the dict of the except branch
KeyDataError(c, e) ==
    [ name |-> c.key_name, type |-> None, ttl |-> None, size |-> 0,
      value |-> None, exists |-> FALSE, error |-> Some(e) ]

\* the dict of an existing key
KeyDataResult(c) ==
    [ name |-> c.key_name, type |-> Some(c.gkd_type),
      ttl |-> NormalizeTtl(c.gkd_ttl), size |-> c.gkd_size,
      value |-> c.gkd_value, exists |-> TRUE, error |-> None ]

\* What get_paginated_key_data adds to the dict of get_key_data for a
\* collection that is not paginated.
Unpaginated(c, original_data) ==
    Update(Update(original_data, [ is_paginated |-> FALSE ]),
           IF c.use_cursor_pagination
           THEN [ cursor |-> c.cursor_arg, next_cursor |-> 0,
                  has_more |-> FALSE, showing_count |-> c.key_size ]
           ELSE [ page |-> c.page, per_page |-> c.per_page,
                  total_pages |-> IF c.key_size > 0 THEN 1 ELSE 0,
                  has_more |-> FALSE ])

\* get_key_data returns dict: to the caller, or to get_paginated_key_data,
\* which extends the dict and returns it
KeyDataReturn(c, dict) ==
    IF c.op = "get_key_data"
    THEN ReturnFrom(c, dict)
    ELSE ReturnFrom(c, Unpaginated(c, dict))

KeyDataRaise(e) ==
    KeyDataReturn([ call EXCEPT !.fault = "key_data" ], KeyDataError(call, e))

StartGetKeyData ==
    /\ call.op = "idle" /\ walk.kind = "none"
    /\ \E a \in Aliases, k \in KeyNames :
          call' = [ IdleCall EXCEPT !.op = "get_key_data",
                                    !.pc = "gkd_connect",
                                    !.instance_alias = a, !.key_name = k ]
    /\ walk' = [ NoWalk EXCEPT !.kind = "single" ]
    /\ result' = NoResult
    /\ UNCHANGED <<db, nbuckets, disturbances, other>>

\* redis_conn = cls.get_redis_connection(instance_alias); redis_conn.select(db_number)
GKD_Connect ==
    /\ call.pc = "gkd_connect"
    /\ LET conn == get_redis_connection(call.instance_alias)
       IN  IF conn # "ok"
           THEN KeyDataRaise(conn) /\ Calm
           ELSE \/ KeyDataRaise("Connection refused") /\ Disturbed
                \/ Goto([ call EXCEPT !.pc = "gkd_exists" ]) /\ Calm
    /\ UNCHANGED <<db, nbuckets>>

\* if not redis_conn.exists(key_name): return {...}
GKD_Exists ==
    /\ call.pc = "gkd_exists"
    /\ \/ KeyDataRaise("Connection lost") /\ Disturbed
       \/ /\ ~ExistsCmd(call.key_name)
          /\ KeyDataReturn(call, KeyDataNotFound(call)) /\ Calm
       \/ /\ ExistsCmd(call.key_name)
          /\ Goto([ call EXCEPT !.pc = "gkd_type" ]) /\ Calm
    /\ UNCHANGED <<db, nbuckets>>

\* key_type = redis_conn.type(key_name)
GKD_Type ==
    /\ call.pc = "gkd_type"
    /\ \/ KeyDataRaise("Connection lost") /\ Disturbed
       \/ Goto([ call EXCEPT !.gkd_type = TypeCmd(call.key_name),
                             !.pc = "gkd_ttl" ])
          /\ Calm
    /\ UNCHANGED <<db, nbuckets>>

\* ttl = redis_conn.ttl(key_name)
GKD_Ttl ==
    /\ call.pc = "gkd_ttl"
    /\ \/ KeyDataRaise("Connection lost") /\ Disturbed
       \/ Goto([ call EXCEPT !.gkd_ttl = TtlCmd(call.key_name),
                             !.gkd_value = None, !.gkd_size = 0,
                             !.pc = "gkd_value" ])
          /\ Calm
    /\ UNCHANGED <<db, nbuckets>>

\* the reply of GET (or "" for None) / LRANGE 0 -1 / list(SMEMBERS) /
\* ZRANGE 0 -1 WITHSCORES / HGETALL
ValueCmd(key_type, k) ==
    CASE key_type = "string" -> db[k].str
      [] key_type = "list"   -> LRange(k, 0, -1)
      [] key_type = "set"    -> SMembers(k)
      [] key_type = "zset"   -> ZRange(k, 0, -1)
      [] key_type = "hash"   -> HGetAll(k)

\* the read of the value, by type; for a string also its size
GKD_Value ==
    /\ call.pc = "gkd_value"
    /\ LET k == call.key_name
           t == call.gkd_type
       IN  \/ /\ t \notin RedisTypes
              /\ KeyDataReturn(call, KeyDataResult(call)) /\ Calm
           \/ /\ t \in RedisTypes
              /\ KeyDataRaise("Connection lost") /\ Disturbed
           \/ /\ t \in RedisTypes /\ WrongType(t, k)
              /\ KeyDataRaise("WRONGTYPE") /\ Calm
           \/ /\ t = "string" /\ ~WrongType(t, k)
              /\ \E c \in { [ call EXCEPT !.gkd_value = Some(ValueCmd(t, k)),
                                          !.gkd_size = SizeCmd(t, k) ] } :
                    KeyDataReturn(c, KeyDataResult(c))
              /\ Calm
           \/ /\ t \in RedisTypes \ { "string" } /\ ~WrongType(t, k)
              /\ Goto([ call EXCEPT !.gkd_value = Some(ValueCmd(t, k)),
                                    !.pc = "gkd_size" ])
              /\ Calm
    /\ UNCHANGED <<db, nbuckets>>

\* key_size = LLEN / SCARD / ZCARD / HLEN
GKD_Size ==
    /\ call.pc = "gkd_size"
    /\ LET k == call.key_name
           t == call.gkd_type
       IN  \/ KeyDataRaise("Connection lost") /\ Disturbed
           \/ /\ WrongType(t, k)
              /\ KeyDataRaise("WRONGTYPE") /\ Calm
           \/ /\ ~WrongType(t, k)
              /\ \E c \in { [ call EXCEPT !.gkd_size = SizeCmd(t, k) ] } :
                    KeyDataReturn(c, KeyDataResult(c))
              /\ Calm
    /\ UNCHANGED <<db, nbuckets>>

----------------------------------------------------------------------------
(* get_paginated_key_data *)

\* page = max(1, page or 1), an absent page being given as 0
NormalizePage(page) == Max(1, IF page = 0 THEN 1 ELSE page)
\* cursor = max(0, cursor)
NormalizeCursor(cursor) == Max(0, cursor)

\* the pagination entries of a result that is not paginated
InertPagination(c, total_pages, showing_count) ==
    IF c.use_cursor_pagination
    THEN [ cursor |-> c.cursor_arg, next_cursor |-> 0,
           has_more |-> FALSE, showing_count |-> showing_count ]
    ELSE [ page |-> c.page, per_page |-> c.per_page,
           total_pages |-> total_pages, has_more |-> FALSE ]

\* the dict for a key that does not exist, and the dict of the except branch
PagedNotFound(c) ==
    Update(Update(KeyDataNotFound(c), [ is_paginated |-> FALSE ]),
           InertPagination(c, 0, 0))
PagedError(c, e) ==
    Update(Update(KeyDataError(c, e), [ is_paginated |-> FALSE ]),
           InertPagination(c, 0, 0))

\* faulty variant: a string longer than the threshold counts as paginated
PagedStringByLength(c, key_value) ==
    Update([ name |-> c.key_name, type |-> Some(c.key_type),
             ttl |-> NormalizeTtl(c.ttl), size |-> Utf8Len(key_value),
             value |-> Some(key_value), exists |-> TRUE, error |-> None,
             is_paginated |-> Utf8Len(key_value) > c.pagination_threshold ],
           InertPagination(c, 0, StrLen(key_value)))

\* the dict of a string key: strings are never paginated
PagedString(c, key_value) ==
    Update([ name |-> c.key_name, type |-> Some(c.key_type),
             ttl |-> NormalizeTtl(c.ttl), size |-> Utf8Len(key_value),
             value |-> Some(key_value), exists |-> TRUE, error |-> None,
             is_paginated |-> FALSE ],
           InertPagination(c, 0, StrLen(key_value)))

\* faulty variant: a collection as large as the threshold is paginated too
ShouldPaginateInclusive(key_size, pagination_threshold) ==
    key_size >= pagination_threshold

\* should_paginate = key_size > pagination_threshold
ShouldPaginate(key_size, pagination_threshold) ==
    key_size > pagination_threshold

\* the dict of a page in cursor mode
CursorPage(c, key_value, next_cursor, has_more) ==
    LET showing_count == Len(key_value)
        ordered == c.key_type \in { "list", "zset" }
    IN  [ name |-> c.key_name, type |-> Some(c.key_type),
          ttl |-> NormalizeTtl(c.ttl), size |-> c.key_size,
          value |-> Some(key_value), exists |-> TRUE, error |-> None,
          is_paginated |-> TRUE,
          cursor |-> c.cursor_arg, next_cursor |-> next_cursor,
          has_more |-> has_more, showing_count |-> showing_count,
          start_index |-> IF ordered THEN Some(c.cursor_arg) ELSE None,
          range_start |-> IF ordered
                          THEN Some(IF showing_count > 0
                                    THEN c.cursor_arg + 1 ELSE 0)
                          ELSE None,
          range_end |-> IF ordered THEN Some(c.cursor_arg + showing_count)
                        ELSE None,
          pagination_type |-> "cursor" ]

\* cursor mode, list and zset: the cursor is the start index
IndexCursorPage(c, key_value) ==
    LET next_cursor == c.cursor_arg + Len(key_value)
    IN  CursorPage(c, key_value, next_cursor, next_cursor < c.key_size)

\* faulty variant: has_more also asks for a batch that is not empty
ScanCursorPageStopsOnEmpty(c, reply) ==
    CursorPage(c, reply.members, reply.cursor,
               reply.cursor # 0 /\ reply.members # <<>>)

\* cursor mode, set and hash: the cursor is the server's SSCAN/HSCAN cursor
ScanCursorPage(c, reply) ==
    CursorPage(c, reply.members, reply.cursor, reply.cursor # 0)

\* faulty variant: the last page is never announced
PageModePageStopsEarly(c, key_value) ==
    LET total_pages == IF c.key_size > 0
                       THEN (c.key_size + c.per_page - 1) \div c.per_page
                       ELSE 1
        start_index == (c.page - 1) * c.per_page
    IN  [ name |-> c.key_name, type |-> Some(c.key_type),
          ttl |-> NormalizeTtl(c.ttl), size |-> c.key_size,
          value |-> Some(key_value), exists |-> TRUE, error |-> None,
          is_paginated |-> TRUE,
          page |-> c.page, per_page |-> c.per_page,
          total_pages |-> total_pages,
          has_more |-> c.page < total_pages - 1,
          start_index |-> start_index,
          end_index |-> IF key_value # <<>>
                        THEN Min(start_index + Len(key_value) - 1,
                                 c.key_size - 1)
                        ELSE start_index,
          showing_count |-> Len(key_value) ]

\* the dict of a page in page mode
PageModePage(c, key_value) ==
    LET total_pages == IF c.key_size > 0
                       THEN (c.key_size + c.per_page - 1) \div c.per_page
                       ELSE 1
        start_index == (c.page - 1) * c.per_page
    IN  [ name |-> c.key_name, type |-> Some(c.key_type),
          ttl |-> NormalizeTtl(c.ttl), size |-> c.key_size,
          value |-> Some(key_value), exists |-> TRUE, error |-> None,
          is_paginated |-> TRUE,
          page |-> c.page, per_page |-> c.per_page,
          total_pages |-> total_pages,
          has_more |-> c.page < total_pages,
          start_index |-> start_index,
          end_index |-> IF key_value # <<>>
                        THEN Min(start_index + Len(key_value) - 1,
                                 c.key_size - 1)
                        ELSE start_index,
          showing_count |-> Len(key_value) ]

\* sorted(all_fields.items()): the items of a dict by field name
SortedPairsList(h) ==
    IF h = <<>> THEN <<>>
    ELSE [ j \in 1..Len(h) |->
             CHOOSE p \in Range(h) :
                 Cardinality({ q \in Range(h) : Rank(q[1]) < Rank(p[1]) })
                     = j - 1 ]
SortedItems(h) == CHOOSE t \in { SortedPairsList(v) : v \in {h} } : TRUE

\* The caller requests page 1 of a key and follows the pages while has_more.
StartCollectionPageWalk ==
    /\ call.op = "idle" /\ walk.kind = "none"
    /\ \E a \in Aliases, k \in KeyNames, page \in 0..1, pp \in 1..2,
          t \in (MaxColl - 2)..(MaxColl - 1) :
          call' = [ IdleCall EXCEPT !.op = "get_paginated_key_data",
                                    !.pc = "connect",
                                    !.instance_alias = a, !.key_name = k,
                                    !.use_cursor_pagination = FALSE,
                                    !.page = NormalizePage(page),
                                    !.per_page = pp,
                                    !.pagination_threshold = t ]
    /\ walk' = [ NoWalk EXCEPT !.kind = "coll_pages" ]
    /\ result' = NoResult
    /\ UNCHANGED <<db, nbuckets, disturbances, other>>

\* The caller requests cursor 0 of a key and follows next_cursor while has_more.
StartCollectionCursorWalk ==
    /\ call.op = "idle" /\ walk.kind = "none"
    /\ \E a \in Aliases, k \in KeyNames, cursor \in -1..0, pp \in 1..2,
          t \in (MaxColl - 2)..(MaxColl - 1) :
          call' = [ IdleCall EXCEPT !.op = "get_paginated_key_data",
                                    !.pc = "connect",
                                    !.instance_alias = a, !.key_name = k,
                                    !.use_cursor_pagination = TRUE,
                                    !.cursor_arg = NormalizeCursor(cursor),
                                    !.per_page = pp,
                                    !.pagination_threshold = t ]
    /\ walk' = [ NoWalk EXCEPT !.kind = "coll_cursor" ]
    /\ result' = NoResult
    /\ UNCHANGED <<db, nbuckets, disturbances, other>>

ContinueCollectionWalk ==
    /\ call.op = "idle" /\ walk.kind \in { "coll_pages", "coll_cursor" }
    /\ ~walk.done
    /\ walk.calls < MaxWalkCalls
    /\ result.op = "get_paginated_key_data"
    /\ call' = [ IdleCall EXCEPT
          !.op = "get_paginated_key_data", !.pc = "connect",
          !.instance_alias = result.args.instance_alias,
          !.key_name = result.args.key_name,
          !.use_cursor_pagination = result.args.use_cursor_pagination,
          !.page = IF result.args.use_cursor_pagination THEN 0
                   ELSE NormalizePage(result.args.page + 1),
          !.cursor_arg = IF result.args.use_cursor_pagination
                         THEN NormalizeCursor(result.dict.next_cursor)
                         ELSE 0,
          !.per_page = result.args.per_page,
          !.pagination_threshold = result.args.pagination_threshold ]
    /\ result' = NoResult
    /\ UNCHANGED <<db, nbuckets, disturbances, walk, other>>

PagedRaise(e) == Raise("paged", PagedError(call, e))

\* redis_conn = cls.get_redis_connection(instance_alias); redis_conn.select(db_number)
GPKD_Connect ==
    /\ call.op = "get_paginated_key_data" /\ call.pc = "connect"
    /\ LET conn == get_redis_connection(call.instance_alias)
       IN  IF conn # "ok"
           THEN PagedRaise(conn) /\ Calm
           ELSE \/ PagedRaise("Connection refused") /\ Disturbed
                \/ Goto([ call EXCEPT !.pc = "exists" ]) /\ Calm
    /\ UNCHANGED <<db, nbuckets>>

\* if not redis_conn.exists(key_name): return base_response
GPKD_Exists ==
    /\ call.op = "get_paginated_key_data" /\ call.pc = "exists"
    /\ \/ PagedRaise("Connection lost") /\ Disturbed
       \/ /\ ~ExistsCmd(call.key_name)
          /\ Return(PagedNotFound(call)) /\ Calm
       \/ /\ ExistsCmd(call.key_name)
          /\ Goto([ call EXCEPT !.pc = "type" ]) /\ Calm
    /\ UNCHANGED <<db, nbuckets>>

\* key_type = redis_conn.type(key_name)
GPKD_Type ==
    /\ call.op = "get_paginated_key_data" /\ call.pc = "type"
    /\ \/ PagedRaise("Connection lost") /\ Disturbed
       \/ Goto([ call EXCEPT !.key_type = TypeCmd(call.key_name),
                             !.pc = "ttl" ])
          /\ Calm
    /\ UNCHANGED <<db, nbuckets>>

\* ttl = redis_conn.ttl(key_name)
GPKD_Ttl ==
    /\ call.op = "get_paginated_key_data" /\ call.pc = "ttl"
    /\ \/ PagedRaise("Connection lost") /\ Disturbed
       \/ Goto([ call EXCEPT !.ttl = TtlCmd(call.key_name), !.pc = "size" ])
          /\ Calm
    /\ UNCHANGED <<db, nbuckets>>

\* where the request goes once the size is known
AfterSize(c, key_size) ==
    [ c EXCEPT !.key_size = key_size,
               !.scan_cursor = 0,
               !.all_members = <<>>,
               !.pc = IF ~ShouldPaginate(key_size, c.pagination_threshold)
                      THEN "gkd_connect"
                      ELSE IF c.use_cursor_pagination THEN "cursor_read"
                      ELSE IF c.key_type = "set" THEN "sscan_all"
                      ELSE "page_read" ]

\* the size of the key by its type; a string is returned at once
GPKD_Size ==
    /\ call.op = "get_paginated_key_data" /\ call.pc = "size"
    /\ LET k == call.key_name
           t == call.key_type
       IN  \/ /\ t \notin RedisTypes
              /\ Goto(AfterSize(call, 0)) /\ Calm
           \/ /\ t \in RedisTypes
              /\ PagedRaise("Connection lost") /\ Disturbed
           \/ /\ t \in RedisTypes /\ WrongType(t, k)
              /\ PagedRaise("WRONGTYPE") /\ Calm
           \/ /\ t = "string" /\ ~WrongType(t, k)
              /\ Return(PagedString(call, ValueCmd(t, k))) /\ Calm
           \/ /\ t \in RedisTypes \ { "string" } /\ ~WrongType(t, k)
              /\ Goto(AfterSize(call, SizeCmd(t, k))) /\ Calm
    /\ UNCHANGED <<db, nbuckets>>

\* cursor mode: LRANGE / ZRANGE from the cursor, or one SSCAN / HSCAN
GPKD_CursorRead ==
    /\ call.op = "get_paginated_key_data" /\ call.pc = "cursor_read"
    /\ LET k == call.key_name
           t == call.key_type
           start_index == call.cursor_arg
           end_index == start_index + call.per_page - 1
       IN  \/ PagedRaise("Connection lost") /\ Disturbed
           \/ /\ WrongType(t, k)
              /\ PagedRaise("WRONGTYPE") /\ Calm
           \/ /\ t = "list" /\ ~WrongType(t, k)
              /\ \E v \in { LRange(k, start_index, end_index) } :
                    Return(IndexCursorPage(call, v))
              /\ Calm
           \/ /\ t = "zset" /\ ~WrongType(t, k)
              /\ \E v \in { ZRange(k, start_index, end_index) } :
                    Return(IndexCursorPage(call, v))
              /\ Calm
           \/ /\ t = "set" /\ ~WrongType(t, k)
              /\ \/ \E r \in { SScan(k, call.cursor_arg, FALSE) } :
                       Return(ScanCursorPage(call, r)) /\ Calm
                 \/ /\ call.cursor_arg # 0
                    /\ \E r \in { SScan(k, call.cursor_arg, TRUE) } :
                          Return(ScanCursorPage(call, r)) /\ Disturbed
           \/ /\ t = "hash" /\ ~WrongType(t, k)
              /\ \/ \E r \in { HScan(k, call.cursor_arg, FALSE) } :
                       Return(ScanCursorPage(call, r)) /\ Calm
                 \/ /\ call.cursor_arg # 0
                    /\ \E r \in { HScan(k, call.cursor_arg, TRUE) } :
                          Return(ScanCursorPage(call, r)) /\ Disturbed
    /\ UNCHANGED <<db, nbuckets>>

\* faulty variant: the end index is taken as exclusive, as a Python slice
GPKD_PageReadExclusiveEnd ==
    /\ call.op = "get_paginated_key_data" /\ call.pc = "page_read"
    /\ LET k == call.key_name
           t == call.key_type
           start_index == (call.page - 1) * call.per_page
           end_index == start_index + call.per_page
       IN  \/ PagedRaise("Connection lost") /\ Disturbed
           \/ /\ WrongType(t, k)
              /\ PagedRaise("WRONGTYPE") /\ Calm
           \/ /\ t = "list" /\ ~WrongType(t, k)
              /\ \E v \in { LRange(k, start_index, end_index) } :
                    Return(PageModePage(call, v))
              /\ Calm
           \/ /\ t = "zset" /\ ~WrongType(t, k)
              /\ \E v \in { ZRange(k, start_index, end_index) } :
                    Return(PageModePage(call, v))
              /\ Calm
           \/ /\ t = "hash" /\ ~WrongType(t, k)
              /\ \E v \in { PySlice(SortedItems(HGetAll(k)), start_index,
                                   start_index + call.per_page) } :
                    Return(PageModePage(call, v))
              /\ Calm
    /\ UNCHANGED <<db, nbuckets>>

\* page mode, list / zset / hash: LRANGE / ZRANGE of the page, or HGETALL,
\* sorted and sliced
GPKD_PageRead ==
    /\ call.op = "get_paginated_key_data" /\ call.pc = "page_read"
    /\ LET k == call.key_name
           t == call.key_type
           start_index == (call.page - 1) * call.per_page
           end_index == start_index + call.per_page - 1
       IN  \/ PagedRaise("Connection lost") /\ Disturbed
           \/ /\ WrongType(t, k)
              /\ PagedRaise("WRONGTYPE") /\ Calm
           \/ /\ t = "list" /\ ~WrongType(t, k)
              /\ \E v \in { LRange(k, start_index, end_index) } :
                    Return(PageModePage(call, v))
              /\ Calm
           \/ /\ t = "zset" /\ ~WrongType(t, k)
              /\ \E v \in { ZRange(k, start_index, end_index) } :
                    Return(PageModePage(call, v))
              /\ Calm
           \/ /\ t = "hash" /\ ~WrongType(t, k)
              /\ \E v \in { PySlice(SortedItems(HGetAll(k)), start_index,
                                   start_index + call.per_page) } :
                    Return(PageModePage(call, v))
              /\ Calm
    /\ UNCHANGED <<db, nbuckets>>

\* one round of "while True: SSCAN ... if scan_cursor == 0: break"; after the
\* last round all_members.sort() and the slice of the page
SScanRound(c, reply) ==
    LET all_members == c.all_members \o reply.members
        start_index == (c.page - 1) * c.per_page
    IN  IF reply.cursor # 0
        THEN Goto([ c EXCEPT !.scan_cursor = reply.cursor,
                             !.all_members = all_members,
                             !.sscan_calls = @ + 1 ])
        ELSE \E v \in { PySlice(SortStrings(all_members), start_index,
                                start_index + c.per_page) } :
                ReturnFrom([ c EXCEPT !.scan_cursor = 0,
                                      !.all_members = all_members,
                                      !.sscan_calls = @ + 1 ],
                           PageModePage(c, v))

\* page mode, set: every member is read with SSCAN first
GPKD_SScanAll ==
    /\ call.op = "get_paginated_key_data" /\ call.pc = "sscan_all"
    /\ LET k == call.key_name
       IN  \/ PagedRaise("Connection lost") /\ Disturbed
           \/ /\ WrongType("set", k)
              /\ PagedRaise("WRONGTYPE") /\ Calm
           \/ /\ ~WrongType("set", k)
              /\ \/ \E r \in { SScan(k, call.scan_cursor, FALSE) } :
                       SScanRound(call, r) /\ Calm
                 \/ /\ call.scan_cursor # 0
                    /\ \E r \in { SScan(k, call.scan_cursor, TRUE) } :
                          SScanRound(call, r) /\ Disturbed
    /\ UNCHANGED <<db, nbuckets>>

----------------------------------------------------------------------------
(* Member-level mutations and create_key *)

\* The member-level mutations: whether the function adds, deletes or
\* updates, the type it compares redis_conn.type(key_name) with, and what it
\* asks the server after the type and before its write
Mutations ==
    [ add_list_item   |-> [ kind |-> "add", type |-> "list", ask |-> "" ],
      add_set_member  |-> [ kind |-> "add", type |-> "set", ask |-> "" ],
      add_zset_member |-> [ kind |-> "add", type |-> "zset", ask |-> "" ],
      add_hash_field  |-> [ kind |-> "add", type |-> "hash", ask |-> "" ],
      delete_list_item_by_index |->
          [ kind |-> "delete", type |-> "list", ask |-> "m_llen" ],
      delete_set_member  |-> [ kind |-> "delete", type |-> "set", ask |-> "" ],
      delete_zset_member |-> [ kind |-> "delete", type |-> "zset", ask |-> "" ],
      delete_hash_field  |-> [ kind |-> "delete", type |-> "hash", ask |-> "" ],
      update_list_item_by_index |->
          [ kind |-> "update", type |-> "list", ask |-> "m_llen" ],
      update_hash_field_value |->
          [ kind |-> "update", type |-> "hash", ask |-> "m_probe" ],
      update_zset_member_score |->
          [ kind |-> "update", type |-> "zset", ask |-> "m_probe" ] ]

MemberOps == DOMAIN Mutations

\* the type the function's write command works on
RequiredType(c) ==
    IF c.op = "create_key" THEN c.new_type ELSE Mutations[c.op].type

\* the returned dicts
DoneSaying(message) ==
    [ success |-> TRUE, error |-> None, message |-> message ]
Fail(error) == [ success |-> FALSE, error |-> Some(error) ]

\* f"Key '{key_name}' exists but is not a list", f"Key '{key_name}' is not a
\* sorted set", ...
KeyIsNotA(c) ==
    "Key '" \o c.key_name \o "'"
    \o (IF Mutations[c.op].kind = "add" THEN " exists but" ELSE "")
    \o " is not a "
    \o (IF RequiredType(c) = "zset" THEN "sorted set" ELSE RequiredType(c))
IndexOutOfRange(c, list_length) ==
    "Index " \o ToString(c.index) \o " is out of range (list length: "
    \o ToString(list_length) \o ")"
MemberDoesNotExist(c) ==
    CASE c.op = "delete_set_member" -> "Member does not exist in set"
      [] c.op = "delete_zset_member" -> "Member does not exist in sorted set"
      [] c.op = "delete_hash_field" -> "Field does not exist in hash"
      [] c.op = "update_hash_field_value" ->
            "Field '" \o c.member \o "' does not exist in hash"
      [] c.op = "update_zset_member_score" ->
            "Member '" \o c.member \o "' does not exist in sorted set"
KeyAlreadyExists(c) == "Key '" \o c.key_name \o "' already exists"

\* faulty variant: the marker is a value that lists hold
DeleteMarkerHeldByLists == "m3"

\* temp_value = f"__DELETE_MARKER_{uuid.uuid4().hex}__": a value no list holds
DeleteMarker == "__DELETE_MARKER__"

\* create_key's placeholder elements
Placeholder ==
    [ item |-> "[Edit or delete this placeholder item]",
      member |-> "[Edit or delete this placeholder member]",
      field |-> "[placeholder_field]",
      value |-> "[Edit or delete this placeholder field]" ]

\* The write command of each function: the exception the server answers
\* it with (None if it answers with a reply), the value the key holds after
\* it, and the dict the function returns after the reply.
WriteError(c, rec) ==
    IF c.op = "create_key" /\ c.new_type = "string" THEN None
    ELSE IF rec.type \notin { "none", RequiredType(c) }
    THEN Some("WRONGTYPE Operation against a key holding the wrong kind of value")
    ELSE IF RequiredType(c) = "list" /\ c.op \in MemberOps
            /\ Mutations[c.op].kind # "add"
    THEN IF rec.type = "none" THEN Some("no such key")
         ELSE IF ~(c.index < Len(rec.list)) THEN Some("index out of range")
         ELSE None
    ELSE None

\* A write to a key that does not exist creates it, without expiry.
Written(c, rec) ==
    LET new == IF rec.type = "none"
               THEN [ NoKey EXCEPT !.type = RequiredType(c), !.ttl = -1 ]
               ELSE rec
        Set(value) ==
            [ NoKey EXCEPT !.type = "string", !.ttl = -1, !.str = value ]
        RPush(value) == [ new EXCEPT !.list = Append(@, value) ]
        LPush(value) == [ new EXCEPT !.list = <<value>> \o @ ]
        LSet(index, value) == [ rec EXCEPT !.list[index + 1] = value ]
        SAdd(member) == [ new EXCEPT !.set = @ \cup { member } ]
        SRem(member) == Emptied([ rec EXCEPT !.set = @ \ { member } ])
        ZAdd(member, score) ==
            [ new EXCEPT !.zset = { p \in @ : p[1] # member }
                                  \cup { <<member, score>> } ]
        ZRem(member) ==
            Emptied([ rec EXCEPT !.zset = { p \in @ : p[1] # member } ])
        HSet(field, value) ==
            [ new EXCEPT !.hash = { p \in @ : p[1] # field }
                                  \cup { <<field, value>> } ]
        HDel(field) ==
            Emptied([ rec EXCEPT !.hash = { p \in @ : p[1] # field } ])
    IN  CASE c.op = "add_list_item" ->
                IF c.position = "start" THEN LPush(c.value)
                ELSE RPush(c.value)
          [] c.op = "add_set_member" -> SAdd(c.member)
          [] c.op = "add_zset_member" -> ZAdd(c.member, c.score)
          [] c.op = "add_hash_field" -> HSet(c.member, c.value)
          [] c.op = "delete_list_item_by_index" -> LSet(c.index, DeleteMarker)
          [] c.op = "delete_set_member" -> SRem(c.member)
          [] c.op = "delete_zset_member" -> ZRem(c.member)
          [] c.op = "delete_hash_field" -> HDel(c.member)
          [] c.op = "update_list_item_by_index" -> LSet(c.index, c.value)
          [] c.op = "update_hash_field_value" -> HSet(c.member, c.value)
          [] c.op = "update_zset_member_score" -> ZAdd(c.member, c.score)
          [] c.op = "create_key" /\ c.new_type = "string" -> Set("")
          [] c.op = "create_key" /\ c.new_type = "list" ->
                LPush(Placeholder.item)
          [] c.op = "create_key" /\ c.new_type = "set" ->
                SAdd(Placeholder.member)
          [] c.op = "create_key" /\ c.new_type = "zset" ->
                ZAdd(Placeholder.member, 0)
          [] c.op = "create_key" /\ c.new_type = "hash" ->
                HSet(Placeholder.field, Placeholder.value)

\* `held` says whether the member or field was in the collection before the
\* command, which is what the replies of SADD, ZADD, HSET, SREM, ZREM and
\* HDEL (0 or 1) tell the function
Written_Result(c, held) ==
    CASE c.op = "add_list_item" -> [ success |-> TRUE, error |-> None ]
      [] c.op = "add_set_member" ->
            DoneSaying(IF held THEN "Member already exists in set"
                       ELSE "Member added to set")
      [] c.op = "add_zset_member" ->
            DoneSaying(IF held THEN "Member score updated in sorted set"
                       ELSE "Member added to sorted set")
      [] c.op = "add_hash_field" ->
            DoneSaying(IF held THEN "Field updated in hash"
                       ELSE "Field added to hash")
      [] c.op = "delete_list_item_by_index" ->
            DoneSaying("List item deleted successfully")
      [] c.op = "delete_set_member" ->
            IF held THEN DoneSaying("Set member deleted successfully")
            ELSE Fail(MemberDoesNotExist(c))
      [] c.op = "delete_zset_member" ->
            IF held THEN DoneSaying("Sorted set member deleted successfully")
            ELSE Fail(MemberDoesNotExist(c))
      [] c.op = "delete_hash_field" ->
            IF held THEN DoneSaying("Hash field deleted successfully")
            ELSE Fail(MemberDoesNotExist(c))
      [] c.op = "update_list_item_by_index" ->
            DoneSaying("List item updated successfully")
      [] c.op = "update_hash_field_value" ->
            DoneSaying("Hash field value updated successfully")
      [] c.op = "update_zset_member_score" ->
            DoneSaying("Sorted set member score updated successfully")
      [] c.op = "create_key" ->
            DoneSaying("Key '" \o c.key_name \o "' created successfully as "
                       \o c.new_type)

\* the arguments the model calls each function with
MutationCalls ==
    LET on == { [ IdleCall EXCEPT !.pc = "m_connect", !.instance_alias = a,
                                  !.key_name = k ] :
                a \in { "local", "cluster1" }, k \in KeyNames }
    IN  UNION { { [ c EXCEPT !.op = "add_list_item", !.value = "m9",
                             !.position = p ] : p \in { "start", "end" } }
                \cup
                { [ c EXCEPT !.op = op, !.member = m, !.score = 5 ] :
                    op \in { "add_set_member", "add_zset_member",
                             "delete_set_member", "delete_zset_member",
                             "update_zset_member_score" },
                    m \in { "m1", "m6" } }
                \cup
                { [ c EXCEPT !.op = op, !.member = f, !.value = "m9" ] :
                    op \in { "add_hash_field", "delete_hash_field",
                             "update_hash_field_value" },
                    f \in { "f1", "f6" } }
                \cup
                { [ c EXCEPT !.op = op, !.index = i, !.value = "m9" ] :
                    op \in { "delete_list_item_by_index",
                             "update_list_item_by_index" },
                    i \in -1..MaxColl }
                \cup
                { [ c EXCEPT !.op = "create_key", !.new_type = t ] :
                    t \in RedisTypes \cup { "stream" } }
              : c \in on }

StartMutation ==
    /\ call.op = "idle" /\ walk.kind = "none"
    /\ \E c \in MutationCalls : call' = [ c EXCEPT !.before = db ]
    /\ walk' = [ NoWalk EXCEPT !.kind = "single" ]
    /\ result' = NoResult
    /\ UNCHANGED <<db, nbuckets, disturbances, other>>

\* redis_conn = cls.get_redis_connection(instance_alias); redis_conn.select(db_number)
Mut_Connect ==
    /\ call.pc = "m_connect"
    /\ LET conn == get_redis_connection(call.instance_alias)
       IN  IF conn # "ok"
           THEN Raise("connect", Fail(conn)) /\ Calm
           ELSE \/ Raise("connect", Fail("Connection refused")) /\ Disturbed
                \/ Goto([ call EXCEPT !.pc = "m_exists" ]) /\ Calm
    /\ UNCHANGED <<db, nbuckets>>

\* faulty variant: create_key does not return for a key that exists
Mut_ExistsCreateOverwrites ==
    /\ call.pc = "m_exists"
    /\ \/ Raise("exists", Fail("Connection lost")) /\ Disturbed
       \/ /\ Calm
          /\ LET found == ExistsCmd(call.key_name)
             IN  CASE call.op = "create_key" ->
                        IF call.new_type \notin RedisTypes
                        THEN Return(Fail("Unsupported key type: "
                                         \o call.new_type))
                        ELSE Goto([ call EXCEPT !.pc = "m_write" ])
                   [] Mutations[call.op].kind = "add" ->
                        Goto([ call EXCEPT !.pc = IF found THEN "m_type"
                                                  ELSE "m_write" ])
                   [] OTHER ->
                        IF found THEN Goto([ call EXCEPT !.pc = "m_type" ])
                        ELSE Return(Fail("Key '" \o call.key_name
                                         \o "' does not exist"))
    /\ UNCHANGED <<db, nbuckets>>

\* redis_conn.exists(key_name): the add functions go on to the write when it
\* is false, the delete and update functions return, create_key returns
\* when it is true and also for a type it does not know
Mut_Exists ==
    /\ call.pc = "m_exists"
    /\ \/ Raise("exists", Fail("Connection lost")) /\ Disturbed
       \/ /\ Calm
          /\ LET found == ExistsCmd(call.key_name)
             IN  CASE call.op = "create_key" ->
                        IF found THEN Return(Fail(KeyAlreadyExists(call)))
                        ELSE IF call.new_type \notin RedisTypes
                        THEN Return(Fail("Unsupported key type: "
                                         \o call.new_type))
                        ELSE Goto([ call EXCEPT !.pc = "m_write" ])
                   [] Mutations[call.op].kind = "add" ->
                        Goto([ call EXCEPT !.pc = IF found THEN "m_type"
                                                  ELSE "m_write" ])
                   [] OTHER ->
                        IF found THEN Goto([ call EXCEPT !.pc = "m_type" ])
                        ELSE Return(Fail("Key '" \o call.key_name
                                         \o "' does not exist"))
    /\ UNCHANGED <<db, nbuckets>>

\* faulty variant: the functions go on to their command whatever the type
Mut_TypeUnchecked ==
    /\ call.pc = "m_type"
    /\ \/ Raise("type", Fail("Connection lost")) /\ Disturbed
       \/ /\ Calm
          /\ Goto([ call EXCEPT
                      !.pc = IF Mutations[call.op].ask = "" THEN "m_write"
                             ELSE Mutations[call.op].ask ])
    /\ UNCHANGED <<db, nbuckets>>

\* redis_conn.type(key_name) != "list" (or "set", "zset", "hash")
Mut_Type ==
    /\ call.pc = "m_type"
    /\ \/ Raise("type", Fail("Connection lost")) /\ Disturbed
       \/ /\ Calm
          /\ IF TypeCmd(call.key_name) # RequiredType(call)
             THEN Return(Fail(KeyIsNotA(call)))
             ELSE Goto([ call EXCEPT
                           !.pc = IF Mutations[call.op].ask = ""
                                  THEN "m_write"
                                  ELSE Mutations[call.op].ask ])
    /\ UNCHANGED <<db, nbuckets>>

\* list_length = redis_conn.llen(key_name)
\* if index < 0 or index >= list_length: return {...}
Mut_Llen ==
    /\ call.pc = "m_llen"
    /\ \/ Raise("llen", Fail("Connection lost")) /\ Disturbed
       \/ /\ Calm
          /\ LET list_length == Len(db[call.key_name].list)
             IN  IF call.index < 0 \/ call.index >= list_length
                 THEN Return(Fail(IndexOutOfRange(call, list_length)))
                 ELSE Goto([ call EXCEPT !.pc = "m_write",
                                         !.validated = db[call.key_name].list ])
    /\ UNCHANGED <<db, nbuckets>>

\* faulty variant: the update functions write whether or not the field or
\* member is there
Mut_ProbeUnchecked ==
    /\ call.pc = "m_probe"
    /\ \/ Raise("probe", Fail("Connection lost")) /\ Disturbed
       \/ Goto([ call EXCEPT !.pc = "m_write" ]) /\ Calm
    /\ UNCHANGED <<db, nbuckets>>

\* if not redis_conn.hexists(key_name, field): return {...}
\* if redis_conn.zscore(key_name, member) is None: return {...}
Mut_Probe ==
    /\ call.pc = "m_probe"
    /\ \/ Raise("probe", Fail("Connection lost")) /\ Disturbed
       \/ /\ Calm
          /\ IF ~Holds(db[call.key_name], call.member)
             THEN Return(Fail(MemberDoesNotExist(call)))
             ELSE Goto([ call EXCEPT !.pc = "m_write" ])
    /\ UNCHANGED <<db, nbuckets>>

\* faulty variant: LSET and LREM are one step of the server (MULTI ... EXEC)
Mut_WriteAtomic ==
    /\ call.pc = "m_write"
    /\ LET rec == db[call.key_name]
           e == WriteError(call, rec)
       IN  \/ /\ Raise("write", Fail("Connection lost")) /\ Disturbed
              /\ UNCHANGED db
           \/ /\ e # None
              /\ Raise("write", Fail(e[1])) /\ Calm
              /\ UNCHANGED db
           \/ /\ e = None
              /\ db' = [ db EXCEPT ![call.key_name] =
                           IF call.op = "delete_list_item_by_index"
                           THEN LRem(Written(call, rec), DeleteMarker)
                           ELSE Written(call, rec) ]
              /\ Return(Written_Result(call, Holds(rec, call.member)))
              /\ Calm
    /\ UNCHANGED nbuckets

\* the write command; delete_list_item_by_index follows its LSET with an LREM
Mut_Write ==
    /\ call.pc = "m_write"
    /\ LET rec == db[call.key_name]
           e == WriteError(call, rec)
       IN  \/ /\ Raise("write", Fail("Connection lost")) /\ Disturbed
              /\ UNCHANGED db
           \/ /\ e # None
              /\ Raise("write", Fail(e[1])) /\ Calm
              /\ UNCHANGED db
           \/ /\ e = None
              /\ db' = [ db EXCEPT ![call.key_name] = Written(call, rec) ]
              /\ IF call.op = "delete_list_item_by_index"
                 THEN Goto([ call EXCEPT !.pc = "m_lrem" ])
                 ELSE Return(Written_Result(call, Holds(rec, call.member)))
              /\ Calm
    /\ UNCHANGED nbuckets

\* redis_conn.lrem(key_name, 1, temp_value)
Mut_Lrem ==
    /\ call.pc = "m_lrem"
    /\ \/ /\ Raise("lrem", Fail("Connection lost")) /\ Disturbed
          /\ UNCHANGED db
       \/ /\ db' = [ db EXCEPT ![call.key_name] = LRem(@, DeleteMarker) ]
          /\ Return(Written_Result(call, TRUE))
          /\ Calm
    /\ UNCHANGED nbuckets

----------------------------------------------------------------------------
(* KeyDetailView.post *)

\* the function of RedisPanelUtils each member action of the view calls
MemberActions ==
    [ add_list_item |-> "add_list_item",
      add_set_member |-> "add_set_member",
      add_zset_member |-> "add_zset_member",
      add_hash_field |-> "add_hash_field",
      delete_list_item |-> "delete_list_item_by_index",
      delete_set_member |-> "delete_set_member",
      delete_zset_member |-> "delete_zset_member",
      delete_hash_field |-> "delete_hash_field",
      update_list_item |-> "update_list_item_by_index",
      update_hash_field_value |-> "update_hash_field_value",
      update_zset_member_score |-> "update_zset_member_score" ]

\* faulty variant: every handler asks for the flag of deleting
FlagOfDeleting(action) == "ALLOW_KEY_DELETE"

\* the flag each handler checks first, and what it answers when it is off
Flag(action) ==
    CASE action = "delete_key" -> "ALLOW_KEY_DELETE"
      [] action = "update_ttl" -> "ALLOW_TTL_UPDATE"
      [] OTHER -> "ALLOW_KEY_EDIT"
Disabled(action) ==
    CASE action = "delete_key" -> "Key deletion is disabled for this instance"
      [] action = "update_ttl" -> "TTL updates are disabled for this instance"
      [] OTHER -> "Key editing is disabled for this instance"

\* int(s) and float(s) of a posted field: None stands for the ValueError
ParseNumber(s) ==
    CASE s = "-1" -> Some(-1)
      [] s = "0" -> Some(0)
      [] s = "5" -> Some(5)
      [] s = "60" -> Some(60)
      [] OTHER -> None

\* the posted forms of the model
PostCalls ==
    LET on == { [ IdleCall EXCEPT !.op = "post", !.pc = "v_dispatch",
                                  !.instance_alias = a, !.key_name = k ] :
                a \in { "local", "readonly", "missing" }, k \in KeyNames }
    IN  UNION { { [ c EXCEPT !.action = "update_value", !.value = "m9" ],
                  [ c EXCEPT !.action = "delete_key" ],
                  [ c EXCEPT !.action = "add_list_item", !.value = "m9",
                             !.position = "start" ] }
                \cup
                { [ c EXCEPT !.action = "update_ttl", !.new_ttl = t ] :
                    t \in { "", "-1", "60", "0", "soon" } }
                \cup
                { [ c EXCEPT !.action = act, !.member = "m1" ] :
                    act \in { "add_set_member", "delete_set_member",
                              "delete_zset_member" } }
                \cup
                { [ c EXCEPT !.action = act, !.member = "m1",
                             !.new_score = x ] :
                    act \in { "add_zset_member", "update_zset_member_score" },
                    x \in { "5", "high" } }
                \cup
                { [ c EXCEPT !.action = act, !.member = "f1",
                             !.value = "m9" ] :
                    act \in { "add_hash_field", "delete_hash_field",
                              "update_hash_field_value" } }
                \cup
                { [ c EXCEPT !.action = act, !.index_arg = i,
                             !.value = "m9" ] :
                    act \in { "delete_list_item", "update_list_item" },
                    i \in { "0", "first" } }
              : c \in on }

StartPost ==
    /\ call.op = "idle" /\ walk.kind = "none"
    /\ \E c \in PostCalls : call' = [ c EXCEPT !.before = db ]
    /\ walk' = [ NoWalk EXCEPT !.kind = "post" ]
    /\ result' = NoResult
    /\ UNCHANGED <<db, nbuckets, disturbances, other>>

\* dispatch: raise Http404 if instance_alias not in instances
Post_Dispatch ==
    /\ call.pc = "v_dispatch"
    /\ IF call.instance_alias \notin DOMAIN INSTANCES
       THEN Return(Response(404, None, None))
       ELSE Goto([ call EXCEPT !.pc = "v_connect" ])
    /\ UNCHANGED <<db, nbuckets, disturbances, other>>

\* faulty variant: the handler runs for a key that EXISTS does not find
Post_KeyDataOfMissingKey ==
    /\ call.pc \in { "v_connect", "v_exists", "v_type" }
    /\ LET conn == get_redis_connection(call.instance_alias)
       IN  \/ /\ call.pc = "v_connect" /\ conn # "ok"
              /\ Raise("key_data", Response(200, None, Some(conn))) /\ Calm
           \/ /\ call.pc = "v_connect" /\ conn = "ok"
              /\ \/ Raise("key_data",
                          Response(200, None, Some("Connection refused")))
                    /\ Disturbed
                 \/ Goto([ call EXCEPT !.pc = "v_exists" ]) /\ Calm
           \/ /\ call.pc # "v_connect"
              /\ Raise("key_data",
                       Response(200, None, Some("Connection lost")))
              /\ Disturbed
           \/ /\ call.pc = "v_exists" /\ Calm
              /\ IF ExistsCmd(call.key_name)
                 THEN Goto([ call EXCEPT !.pc = "v_type" ])
                 ELSE Goto([ call EXCEPT !.pc = "v_type" ])
           \/ /\ call.pc = "v_type" /\ Calm
              /\ Goto([ call EXCEPT !.key_type = TypeCmd(call.key_name),
                                    !.pc = "v_handle" ])
    /\ UNCHANGED <<db, nbuckets>>

\* key_data = self._get_key_data(): the connection, EXISTS and TYPE of the
\* function that reads the key; what it reads after the type is shown on the
\* page and decides nothing.  The function returns an error dict with
\* exists = False when a command raises, and the view shows its error.
Post_KeyData ==
    /\ call.pc \in { "v_connect", "v_exists", "v_type" }
    /\ LET conn == get_redis_connection(call.instance_alias)
       IN  \/ /\ call.pc = "v_connect" /\ conn # "ok"
              /\ Raise("key_data", Response(200, None, Some(conn))) /\ Calm
           \/ /\ call.pc = "v_connect" /\ conn = "ok"
              /\ \/ Raise("key_data",
                          Response(200, None, Some("Connection refused")))
                    /\ Disturbed
                 \/ Goto([ call EXCEPT !.pc = "v_exists" ]) /\ Calm
           \/ /\ call.pc # "v_connect"
              /\ Raise("key_data",
                       Response(200, None, Some("Connection lost")))
              /\ Disturbed
           \/ /\ call.pc = "v_exists" /\ Calm
              /\ IF ExistsCmd(call.key_name)
                 THEN Goto([ call EXCEPT !.pc = "v_type" ])
                 ELSE Return(Response(404, None, None))
           \/ /\ call.pc = "v_type" /\ Calm
              /\ Goto([ call EXCEPT !.key_type = TypeCmd(call.key_name),
                                    !.pc = "v_handle" ])
    /\ UNCHANGED <<db, nbuckets>>

\* The handler of the posted action, up to its first command: the flag, the
\* type for update_value, the posted numbers of the member handlers.
Post_Handle ==
    /\ call.pc = "v_handle"
    /\ LET index == ParseNumber(call.index_arg)
           score == ParseNumber(call.new_score)
       IN  CASE ~is_feature_enabled(call.instance_alias, Flag(call.action)) ->
                  Return(Response(200, None, Some(Disabled(call.action))))
             [] call.action = "update_value" /\ call.key_type # "string" ->
                  Return(Response(200, None,
                      Some("Direct editing not supported for "
                           \o call.key_type \o " keys")))
             [] call.action \in { "delete_list_item", "update_list_item" }
                /\ index = None ->
                  Return(Response(200, None, Some("Invalid index provided")))
             [] call.action \in { "add_zset_member",
                                  "update_zset_member_score" }
                /\ score = None ->
                  Return(Response(200, None,
                      Some("Invalid score provided. Score must be a number.")))
             [] call.action \in DOMAIN MemberActions ->
                  Goto([ call EXCEPT
                           !.op = MemberActions[call.action],
                           !.pc = "m_connect",
                           !.index = IF index = None THEN 0 ELSE index[1],
                           !.score = IF score = None THEN 0 ELSE score[1] ])
             [] OTHER -> Goto([ call EXCEPT !.pc = "v_wconnect" ])
    /\ UNCHANGED <<db, nbuckets, disturbances, other>>

\* redis_conn = RedisPanelUtils.get_redis_connection(self.instance_alias) of
\* _handle_update_value, _handle_update_ttl and _handle_delete_key: post shows
\* str(e) of what they raise, except that _handle_update_ttl answers a
\* ValueError itself; then new_ttl is looked at
Post_Connect ==
    /\ call.pc = "v_wconnect"
    /\ LET conn == get_redis_connection(call.instance_alias)
           ttl_seconds == ParseNumber(call.new_ttl)
       IN  \/ /\ conn # "ok" /\ Calm
              /\ Raise("connect", Response(200, None,
                     Some(IF call.action = "update_ttl"
                          THEN "TTL must be a valid number" ELSE conn)))
           \/ /\ conn = "ok" /\ Disturbed
              /\ Raise("connect",
                       Response(200, None, Some("Connection refused")))
           \/ /\ conn = "ok" /\ Calm
              /\ CASE call.action # "update_ttl" \/ call.new_ttl \in { "", "-1" }
                        -> Goto([ call EXCEPT !.pc = "v_write" ])
                   [] ttl_seconds = None ->
                        Return(Response(200, None,
                                   Some("TTL must be a valid number")))
                   [] ttl_seconds[1] > 0 ->
                        Goto([ call EXCEPT !.pc = "v_write",
                                           !.ttl = ttl_seconds[1] ])
                   [] OTHER ->
                        Return(Response(200, None,
                                   Some("TTL must be a positive number")))
    /\ UNCHANGED <<db, nbuckets>>

\* redis_conn.set(self.key_name, new_value) / redis_conn.persist(self.key_name)
\* / redis_conn.expire(self.key_name, ttl_seconds) / redis_conn.delete(self.key_name)
Post_Write ==
    /\ call.pc = "v_write"
    /\ LET k == call.key_name IN
       \/ /\ Raise("write", Response(200, None, Some("Connection lost")))
          /\ Disturbed
          /\ UNCHANGED db
       \/ /\ Calm
          /\ CASE call.action = "update_value" ->
                    /\ db' = [ db EXCEPT ![k] =
                                 [ NoKey EXCEPT !.type = "string", !.ttl = -1,
                                                !.str = call.value ] ]
                    /\ Return(Response(200,
                           Some("Key value updated successfully"), None))
               [] call.action = "update_ttl" /\ call.new_ttl \in { "", "-1" } ->
                    /\ db' = IF Exists(k) THEN [ db EXCEPT ![k].ttl = -1 ]
                             ELSE db
                    /\ Return(Response(200,
                           Some("TTL removed (key will not expire)"), None))
               [] call.action = "update_ttl" /\ call.new_ttl \notin { "", "-1" } ->
                    /\ db' = IF Exists(k) THEN [ db EXCEPT ![k].ttl = call.ttl ]
                             ELSE db
                    /\ Return(Response(200,
                           Some("TTL set to " \o ToString(call.ttl)
                                \o " seconds"), None))
               [] call.action = "delete_key" ->
                    /\ db' = [ db EXCEPT ![k] = NoKey ]
                    /\ Return(Response(302, None, None))
    /\ UNCHANGED nbuckets

----------------------------------------------------------------------------
(* The functions without commands: is_feature_enabled and _get_page_range *)

\* faulty variant: the window ends one page early
get_page_range_short(current_page, total_pages) ==
    IF total_pages <= 10
    THEN [ i \in 1..total_pages |-> Some(i) ]
    ELSE LET start == Max(1, current_page - 5)
             end == Min(total_pages, current_page + 5)
             pages == [ i \in 1..Max(0, end - start) |-> Some(start + i - 1) ]
             first == IF Some(1) \notin Range(pages)
                      THEN << Some(1), None >> \o pages ELSE pages
         IN  IF Some(total_pages) \notin Range(first)
             THEN first \o << None, Some(total_pages) >> ELSE first

\* _get_page_range: the list of page numbers, "..." being None
get_page_range(current_page, total_pages) ==
    IF total_pages <= 10
    THEN [ i \in 1..total_pages |-> Some(i) ]
    ELSE LET start == Max(1, current_page - 5)
             end == Min(total_pages + 1, current_page + 6)
             \* list(range(start, end))
             pages == [ i \in 1..Max(0, end - start) |-> Some(start + i - 1) ]
             first == IF Some(1) \notin Range(pages)
                      THEN << Some(1), None >> \o pages ELSE pages
         IN  IF Some(total_pages) \notin Range(first)
             THEN first \o << None, Some(total_pages) >> ELSE first

\* the pagination entries that KeyDetailView puts into the context of the page
PaginationContext(key_data, use_cursor_pagination) ==
    LET page == IF "page" \in DOMAIN key_data THEN key_data.page ELSE 1
    IN  [ current_page |-> page,
          has_previous |-> IF ~use_cursor_pagination THEN page > 1 ELSE FALSE,
          has_next |-> IF "has_more" \in DOMAIN key_data
                       THEN key_data.has_more ELSE FALSE ]

\* the settings is_feature_enabled is asked under: one instance, "local",
\* without a features entry, with one that lacks the feature, or with one
\* that sets it; global settings that lack the feature or set it
SettingsDrawn ==
    LET names == { "ALLOW_KEY_EDIT", "ALLOW_KEY_DELETE" }
        entries == { << >> }
                   \cup { (f :> b) : f \in names, b \in BOOLEAN }
        configs == { [ type |-> "single" ] }
                   \cup { [ type |-> "single", features |-> e ] :
                            e \in entries }
    IN  { Update(g, [ INSTANCES |-> [ local |-> c ] ]) :
            g \in entries, c \in configs }

\* the calls of the two functions
PureCalls ==
    { [ IdleCall EXCEPT !.op = "is_feature_enabled", !.panel_settings = s,
                        !.instance_alias = a, !.feature_name = f ] :
        s \in SettingsDrawn, a \in { "local", "missing" },
        f \in { "ALLOW_KEY_EDIT", "ALLOW_KEY_DELETE" } }
    \cup
    { [ IdleCall EXCEPT !.op = "_get_page_range", !.page = c,
                        !.total_pages = t ] :
        c \in -1..(MaxTotalPages + 1), t \in 0..MaxTotalPages }

Apply_is_feature_enabled ==
    /\ call.op = "is_feature_enabled"
    /\ Return([ returned |-> FeatureEnabled(call.panel_settings,
                                            call.instance_alias,
                                            call.feature_name) ])
    /\ UNCHANGED <<db, nbuckets, disturbances, other>>

Apply_get_page_range ==
    /\ call.op = "_get_page_range"
    /\ Return([ returned |-> get_page_range(call.page, call.total_pages) ])
    /\ UNCHANGED <<db, nbuckets, disturbances, other>>

----------------------------------------------------------------------------
(* The caller ends a finished walk; the other client *)

EndWalk ==
    /\ call.op = "idle" /\ walk.kind # "none" /\ walk.done
    /\ walk' = NoWalk
    /\ result' = NoResult
    /\ UNCHANGED <<db, nbuckets, disturbances, call, other>>

\* keys of the page in flight whose details have not been fetched yet
PendingDetail ==
    IF call.op \in { "paginated_scan", "cursor_paginated_scan" }
       /\ call.pc = "type"
    THEN { call.page_keys[i] : i \in call.idx..Len(call.page_keys) }
    ELSE {}

\* the key that a call of get_paginated_key_data in flight is reading
KeyBeingRead ==
    IF call.op = "get_paginated_key_data" THEN { call.key_name } ELSE {}

\* DEL key, issued by another client of the same server
OtherDelete ==
    /\ Disturbed
    /\ \E k \in KeyNames :
          /\ Exists(k)
          /\ db' = [ db EXCEPT ![k] = NoKey ]
          /\ call' = IF k \in PendingDetail \cup KeyBeingRead
                     THEN [ call EXCEPT !.lost = @ \cup {k} ]
                     ELSE call
    /\ walk' = IF walk.kind # "none" THEN [ walk EXCEPT !.static = FALSE ]
               ELSE walk
    /\ UNCHANGED <<nbuckets, result, other>>

\* The second client works on the lists of the same server: LPUSH key value,
\* LPOP key and LRANGE key 0 -1, each one command.
OtherPush ==
    /\ Disturbed
    /\ \E k \in KeyNames :
          /\ db[k].type = "list"
          /\ db' = [ db EXCEPT ![k].list = << OtherValue >> \o @ ]
    /\ walk' = IF walk.kind # "none" THEN [ walk EXCEPT !.static = FALSE ]
               ELSE walk
    /\ UNCHANGED <<nbuckets, call, result, other>>

OtherPop ==
    /\ Disturbed
    /\ \E k \in KeyNames :
          /\ db[k].type = "list"
          /\ db' = [ db EXCEPT ![k] = Emptied([ @ EXCEPT !.list = Tail(@) ]) ]
          /\ other' = [ other EXCEPT !.returned = Some(Head(db[k].list)) ]
    /\ walk' = IF walk.kind # "none" THEN [ walk EXCEPT !.static = FALSE ]
               ELSE walk
    /\ UNCHANGED <<nbuckets, call, result>>

OtherRead ==
    /\ Disturbed
    /\ \E k \in KeyNames :
          /\ db[k].type = "list"
          /\ other' = [ other EXCEPT !.seen = LRange(k, 0, -1) ]
    /\ UNCHANGED <<db, nbuckets, call, result, walk>>

\* The second client is a second request of the panel: create_key for the
\* name that the first request creates, with the same commands.
OtherCreate_Start ==
    /\ call.op = "create_key" /\ other.pc = ""
    /\ \E t \in RedisTypes :
          other' = [ other EXCEPT !.pc = "exists", !.key_name = call.key_name,
                                  !.new_type = t ]
    /\ UNCHANGED <<db, nbuckets, disturbances, call, result, walk>>

\* if redis_conn.exists(key_name): return {...}
OtherCreate_Exists ==
    /\ other.pc = "exists"
    /\ LET c == [ IdleCall EXCEPT !.op = "create_key",
                                  !.key_name = other.key_name,
                                  !.new_type = other.new_type ]
       IN  other' = IF ExistsCmd(other.key_name)
                    THEN [ other EXCEPT !.pc = "done",
                             !.returned = Some(Fail(KeyAlreadyExists(c))) ]
                    ELSE [ other EXCEPT !.pc = "write" ]
    /\ UNCHANGED <<db, nbuckets, disturbances, call, result, walk>>

\* the command that creates the key, and the return
OtherCreate_Write ==
    /\ other.pc = "write"
    /\ LET c == [ IdleCall EXCEPT !.op = "create_key",
                                  !.key_name = other.key_name,
                                  !.new_type = other.new_type ]
           rec == db[other.key_name]
           e == WriteError(c, rec)
       IN  IF e # None
           THEN /\ other' = [ other EXCEPT !.pc = "done",
                                           !.returned = Some(Fail(e[1])) ]
                /\ UNCHANGED <<db, walk>>
           ELSE /\ db' = [ db EXCEPT ![other.key_name] = Written(c, rec) ]
                /\ other' = [ other EXCEPT !.pc = "done",
                                 !.returned = Some(Written_Result(c, FALSE)) ]
                /\ walk' = IF walk.kind # "none"
                           THEN [ walk EXCEPT !.static = FALSE ] ELSE walk
    /\ UNCHANGED <<nbuckets, disturbances, call, result>>

\* create_key is called on the first instance
StartCreate ==
    /\ call.op = "idle" /\ walk.kind = "none"
    /\ \E c \in MutationCalls :
          /\ c.op = "create_key" /\ c.new_type \in RedisTypes
          /\ c.instance_alias = "local"
          /\ call' = [ c EXCEPT !.before = db ]
    /\ walk' = [ NoWalk EXCEPT !.kind = "single" ]
    /\ result' = NoResult
    /\ UNCHANGED <<db, nbuckets, disturbances, other>>

\* delete_list_item_by_index is called on the first instance
StartListDelete ==
    /\ call.op = "idle" /\ walk.kind = "none"
    /\ \E c \in MutationCalls :
          /\ c.op = "delete_list_item_by_index"
          /\ c.instance_alias = "local"
          /\ call' = [ c EXCEPT !.before = db ]
    /\ walk' = [ NoWalk EXCEPT !.kind = "single" ]
    /\ result' = NoResult
    /\ UNCHANGED <<db, nbuckets, disturbances, other>>

----------------------------------------------------------------------------

Next ==
    \/ StartScanWalk
    \/ ContinueScanWalk
    \/ PS_Connect
    \/ PS_Scan
    \/ Detail_Type
    \/ Detail_Ttl
    \/ Detail_Size
    \/ PS_Return
    \/ StartCursorWalk
    \/ ContinueCursorWalk
    \/ CPS_Connect
    \/ CPS_Scan
    \/ CPS_Return
    \/ StartGetKeyData
    \/ GKD_Connect
    \/ GKD_Exists
    \/ GKD_Type
    \/ GKD_Ttl
    \/ GKD_Value
    \/ GKD_Size
    \/ StartCollectionPageWalk
    \/ StartCollectionCursorWalk
    \/ ContinueCollectionWalk
    \/ GPKD_Connect
    \/ GPKD_Exists
    \/ GPKD_Type
    \/ GPKD_Ttl
    \/ GPKD_Size
    \/ GPKD_CursorRead
    \/ GPKD_PageRead
    \/ GPKD_SScanAll
    \/ EndWalk
    \/ OtherDelete

Spec == Init /\ [][Next]_vars

\* The functions without commands on their own: each behaviour is one call.
PureInit ==
    /\ db = [ k \in KeyNames |-> InitialKey(k, MaxColl) ]
    /\ nbuckets = 2
    /\ disturbances = 0
    /\ call \in PureCalls
    /\ result = NoResult
    /\ walk = NoWalk
    /\ other = NoOther

PureNext ==
    \/ Apply_is_feature_enabled
    \/ Apply_get_page_range

PureSpec == PureInit /\ [][PureNext]_vars

\* The mutations on their own: one call of a member-level mutation or of
\* create_key on a keyspace in which one key name is free, and the other
\* client.
MutationInit ==
    /\ \E n \in 1..MaxColl, free \in KeyNames :
          db = [ k \in KeyNames |-> IF k = free THEN NoKey
                                    ELSE InitialKey(k, n) ]
    /\ nbuckets = 2
    /\ disturbances = 0
    /\ call = IdleCall
    /\ result = NoResult
    /\ walk = NoWalk
    /\ other = NoOther

MutationNext ==
    \/ StartMutation
    \/ Mut_Connect
    \/ Mut_Exists
    \/ Mut_Type
    \/ Mut_Llen
    \/ Mut_Probe
    \/ Mut_Write
    \/ Mut_Lrem
    \/ OtherDelete

MutationSpec == MutationInit /\ [][MutationNext]_vars

\* delete_list_item_by_index and a second client that pushes to the list,
\* pops from it or reads it between the commands of the function.
ListRaceNext ==
    \/ StartListDelete
    \/ Mut_Connect
    \/ Mut_Exists
    \/ Mut_Type
    \/ Mut_Llen
    \/ Mut_Write
    \/ Mut_Lrem
    \/ OtherPush
    \/ OtherPop
    \/ OtherRead

ListRaceSpec == Init /\ [][ListRaceNext]_vars

\* Two create_key requests for one name, their commands interleaved.
CreateRaceNext ==
    \/ StartCreate
    \/ Mut_Connect
    \/ Mut_Exists
    \/ Mut_Write
    \/ OtherCreate_Start
    \/ OtherCreate_Exists
    \/ OtherCreate_Write

CreateRaceSpec == MutationInit /\ [][CreateRaceNext]_vars

\* The key detail view on its own: one POST on the keyspace of the tests, the
\* functions its handlers call, and the other client.
PostNext ==
    \/ StartPost
    \/ Post_Dispatch
    \/ Post_KeyData
    \/ Post_Handle
    \/ Post_Connect
    \/ Post_Write
    \/ Mut_Connect
    \/ Mut_Exists
    \/ Mut_Type
    \/ Mut_Llen
    \/ Mut_Probe
    \/ Mut_Write
    \/ Mut_Lrem
    \/ OtherDelete

PostInit ==
    /\ db = [ k \in KeyNames |-> InitialKey(k, MaxColl) ]
    /\ nbuckets = 2
    /\ disturbances = 0
    /\ call = IdleCall
    /\ result = NoResult
    /\ walk = NoWalk
    /\ other = NoOther

PostSpec == PostInit /\ [][PostNext]_vars

\* The same page of the key list requested twice: paginated_scan, its caller
\* and the other client.
RepeatNext ==
    \/ StartRepeatedScan
    \/ RepeatScan
    \/ PS_Connect
    \/ PS_Scan
    \/ Detail_Type
    \/ Detail_Ttl
    \/ Detail_Size
    \/ PS_Return
    \/ EndWalk
    \/ OtherDelete

RepeatSpec == Init /\ [][RepeatNext]_vars

\* The cursor walk of the key list on its own: cursor_paginated_scan, its
\* caller and the other client.  Requests do not overlap, so these are the
\* steps of Next that can happen between the start and the end of such a walk.
CursorNext ==
    \/ StartCursorWalk
    \/ ContinueCursorWalk
    \/ CPS_Connect
    \/ CPS_Scan
    \/ Detail_Type
    \/ Detail_Ttl
    \/ Detail_Size
    \/ CPS_Return
    \/ EndWalk
    \/ OtherDelete

\* The request thread runs every request to its return and the caller
\* follows the links it is given: no step that can be taken is put off
\* forever.
CursorFairSpec == Init /\ [][CursorNext]_vars /\ WF_vars(CursorNext)

----------------------------------------------------------------------------
(* Properties *)

IsResultOf(op) == result.op = op
Succeeded(op) == result.op = op /\ result.dict.error = None

DetailKeys(dict) ==
    { dict.keys_with_details[i].key : i \in DOMAIN dict.keys_with_details }

\* a walk over the pages of paginated_scan, page 1 to total_pages, has ended
\* without an error and without a write of the other client during it
ScanWalkDone ==
    /\ walk.kind = "scan_pages" /\ walk.done
    /\ ~walk.failed /\ walk.static

\* C1: in offset mode the pages 1..total_pages of an unmutated keyspace,
\* concatenated, are the sorted set of the accumulated keys: no key twice,
\* no key missing.
C1_PageCoverage ==
    ScanWalkDone =>
        walk.acc = SortStrings(SetToSeqDesc(Range(result.args.all_keys)))

\* C2: a caller that starts cursor_paginated_scan at cursor 0 and feeds
\* next_cursor back in reaches a result with has_more = false, after no more
\* calls than the server's cursor space has positions.
C2_CursorTermination ==
    (walk.kind = "scan_cursor")
        ~> (walk.kind = "scan_cursor" /\ walk.done /\ walk.calls <= nbuckets)

C2_Witness ==
    /\ walk.kind = "scan_cursor" /\ walk.done /\ walk.static /\ ~walk.failed
    /\ walk.calls >= 2
    /\ Len(walk.acc) >= 2

\* C3: a successful cursor_paginated_scan result has has_more exactly when
\* the server's next cursor is nonzero and the page holds a key; scan_complete
\* tells only whether the next cursor is zero.
C3_HasMoreIff ==
    Succeeded("cursor_paginated_scan") =>
        /\ result.dict.has_more <=>
              (result.dict.next_cursor # 0 /\ Len(result.dict.keys) > 0)
        /\ result.dict.scan_complete <=> (result.dict.next_cursor = 0)

C3_Witness ==
    /\ Succeeded("cursor_paginated_scan")
    /\ result.dict.keys = <<>>
    /\ result.dict.next_cursor # 0
    /\ ~result.dict.has_more
    /\ ~result.dict.scan_complete

\* a walk over the pages of one key has ended without an error and without
\* a write of the other client during it, and the key was paginated
CollectionWalkDone(kinds, types) ==
    /\ walk.kind \in kinds /\ walk.done
    /\ ~walk.failed /\ walk.static
    /\ result.op = "get_paginated_key_data"
    /\ result.dict.is_paginated
    /\ db[result.args.key_name].type \in types

\* a sequence of member/score pairs is in sorted-set order
InZsetOrder(s) ==
    \A i, j \in DOMAIN s :
        i < j => \/ s[i][2] < s[j][2]
                 \/ (s[i][2] = s[j][2] /\ Rank(s[i][1]) < Rank(s[j][1]))

\* C4: for a static list or sorted set above the pagination threshold the
\* values of the pages, concatenated in the order they were fetched, are the
\* collection in its own order, in page mode (page 1 to total_pages) and in
\* cursor mode (cursor 0, then next_cursor while has_more).
C4_RangeRoundTrip ==
    CollectionWalkDone({ "coll_pages", "coll_cursor" }, { "list", "zset" }) =>
        LET k == result.args.key_name
        IN  IF db[k].type = "list"
            THEN walk.acc = db[k].list
            ELSE /\ Range(walk.acc) = db[k].zset
                 /\ Len(walk.acc) = Cardinality(db[k].zset)
                 /\ InZsetOrder(walk.acc)

C4_Witness ==
    /\ CollectionWalkDone({ "coll_cursor" }, { "list" })
    /\ walk.calls >= 2
    /\ result.args.per_page = 2
    /\ walk.acc = db[result.args.key_name].list
    /\ ~NoDuplicates(walk.acc)

\* C5: for a static set or hash above the pagination threshold the values of
\* the cursor-mode pages (cursor 0, then next_cursor until has_more is false)
\* hold, taken together, every member of the set / every field of the hash
\* and nothing else.
C5_ScanCursorComplete ==
    CollectionWalkDone({ "coll_cursor" }, { "set", "hash" }) =>
        LET k == result.args.key_name
        IN  IF db[k].type = "set"
            THEN Range(walk.acc) = db[k].set
            ELSE Range(walk.acc) = db[k].hash

C5_Witness ==
    /\ CollectionWalkDone({ "coll_cursor" }, { "set" })
    /\ walk.calls >= 3
    /\ Range(walk.acc) = db[result.args.key_name].set
    /\ Len(walk.acc) > Cardinality(db[result.args.key_name].set)

\* the number of elements the server holds under a key
StoredSize(k) ==
    CASE db[k].type = "list" -> Len(db[k].list)
      [] db[k].type = "set"  -> Cardinality(db[k].set)
      [] db[k].type = "zset" -> Cardinality(db[k].zset)
      [] db[k].type = "hash" -> Cardinality(db[k].hash)
      [] OTHER -> 0

\* value is the whole collection under key k
WholeCollection(k, value) ==
    /\ value # None
    /\ Len(value[1]) = StoredSize(k)
    /\ CASE db[k].type = "list" -> value[1] = db[k].list
         [] db[k].type = "set"  -> Range(value[1]) = db[k].set
         [] db[k].type = "zset" ->
                Range(value[1]) = db[k].zset /\ InZsetOrder(value[1])
         [] db[k].type = "hash" -> Range(value[1]) = db[k].hash
         [] OTHER -> FALSE

\* a get_paginated_key_data call on a collection that exists and that the
\* other client left alone has returned without an error
CollectionRead ==
    /\ Succeeded("get_paginated_key_data")
    /\ walk.static
    /\ db[result.args.key_name].type \in { "list", "set", "zset", "hash" }

\* C6: a list, set, zset or hash of at most pagination_threshold elements is
\* returned whole with is_paginated = false; one of more elements is returned
\* with is_paginated = true.
C6_ThresholdBoundary ==
    CollectionRead =>
        LET k == result.args.key_name
            threshold == result.args.pagination_threshold
        IN  /\ StoredSize(k) <= threshold
                  => /\ ~result.dict.is_paginated
                     /\ WholeCollection(k, result.dict.value)
            /\ StoredSize(k) > threshold => result.dict.is_paginated

C6_Witness ==
    /\ CollectionRead
    /\ StoredSize(result.args.key_name) = result.args.pagination_threshold
    /\ ~result.dict.is_paginated
    /\ WholeCollection(result.args.key_name, result.dict.value)

\* a reported ttl: None or a strictly positive number
TtlReported(ttl) == ttl = None \/ ttl[1] > 0

\* the reported ttl is None exactly when the store's TTL reply for key k is
\* not positive, and is that reply otherwise
TtlOfStore(k, ttl) ==
    /\ ttl = None <=> db[k].ttl <= 0
    /\ ttl # None => ttl[1] = db[k].ttl

\* C7: every ttl in a result of paginated_scan, cursor_paginated_scan,
\* get_key_data and get_paginated_key_data is None or strictly positive, and
\* a TTL reply of -1, -2 or 0 is reported as None.
C7_TtlNormalized ==
    /\ result.op \in { "paginated_scan", "cursor_paginated_scan" } =>
          \A i \in DOMAIN result.dict.keys_with_details :
              LET row == result.dict.keys_with_details[i]
              IN  /\ TtlReported(row.ttl)
                  /\ walk.static => TtlOfStore(row.key, row.ttl)
    /\ result.op \in { "get_key_data", "get_paginated_key_data" } =>
          /\ TtlReported(result.dict.ttl)
          /\ (walk.static /\ result.dict.exists)
                => TtlOfStore(result.args.key_name, result.dict.ttl)

C7_Witness ==
    /\ Succeeded("get_paginated_key_data")
    /\ result.dict.exists /\ result.dict.is_paginated
    /\ db[result.args.key_name].ttl = 0
    /\ result.dict.ttl = None

\* C8: a key that another client deletes after the page was cut and before
\* its details are fetched is left out of keys_with_details, total_keys still
\* counts it and the call reports no error.
C8_DeletedKeyOmitted ==
    IsResultOf("paginated_scan") =>
        \A k \in result.args.lost :
            /\ k \notin DetailKeys(result.dict)
            /\ result.dict.total_keys = Len(result.args.all_keys)
            /\ result.dict.error = None

\* C9: a paginated_scan whose loop ended at max_scan_iterations with the
\* server cursor never back at 0 reports limited_scan = true.
C9_IterationCapFlagged ==
    ( /\ Succeeded("paginated_scan")
      /\ result.args.scan_iterations = max_scan_iterations
      /\ result.args.cursor # 0 )
        => result.dict.limited_scan

EmptyErrorPage(dict) ==
    /\ dict.keys = <<>>
    /\ dict.keys_with_details = <<>>
    /\ dict.total_keys = 0
    /\ ~dict.has_more
    /\ dict.error # None

\* C10 as claimed: whichever command of paginated_scan fails, the result is
\* the empty page with an error.
C10_AnyFailureIsErrorPage ==
    (IsResultOf("paginated_scan") /\ result.args.fault # "")
        => EmptyErrorPage(result.dict)

\* C10 as amended: a failure to connect, to select or to SCAN gives the empty
\* page with an error; a failing detail command only drops its key from
\* keys_with_details and the page is returned with error = None.
C10_FailureHandling ==
    IsResultOf("paginated_scan") =>
        /\ result.args.fault \in { "connect", "scan" }
              => EmptyErrorPage(result.dict)
        /\ result.args.fault = "detail"
              => /\ result.dict.error = None
                 /\ result.dict.keys = result.args.page_keys
                 /\ Len(result.dict.keys_with_details) < Len(result.dict.keys)
        /\ result.args.fault = "" => result.dict.error = None

C10_Witness ==
    /\ IsResultOf("paginated_scan")
    /\ result.args.fault = "scan"
    /\ Len(result.args.all_keys) > 0
    /\ EmptyErrorPage(result.dict)

\* a result of cursor_paginated_scan that came from its except branch
CursorScanFailed ==
    IsResultOf("cursor_paginated_scan") /\ result.dict.error # None

\* C11 as claimed: a failed cursor_paginated_scan returns the empty error
\* result with current_cursor and next_cursor both equal to the cursor it
\* was called with.
C11_ErrorReturnsInputCursor ==
    CursorScanFailed =>
        /\ result.dict.keys = <<>> /\ ~result.dict.has_more
        /\ result.dict.current_cursor = result.args.cursor_arg
        /\ result.dict.next_cursor = result.args.cursor_arg

\* C11 as amended: a failed cursor_paginated_scan returns the empty error
\* result with current_cursor equal to the cursor it was called with and
\* next_cursor = 0.
C11_ErrorKeepsCurrentCursor ==
    CursorScanFailed =>
        /\ result.dict.keys = <<>> /\ result.dict.keys_with_details = <<>>
        /\ ~result.dict.has_more
        /\ result.dict.current_cursor = result.args.cursor_arg
        /\ result.dict.next_cursor = 0

C11_Witness ==
    /\ CursorScanFailed
    /\ result.args.cursor_arg # 0
    /\ result.dict.current_cursor = result.args.cursor_arg
    /\ result.dict.next_cursor = 0

\* the instance of the last request is configured with the given type
InstanceType(type) ==
    /\ result.args.instance_alias \in DOMAIN INSTANCES
    /\ INSTANCES[result.args.instance_alias].type = type

Unreachable(dict) ==
    dict.error \in { Some("Connection refused"), Some("Connection lost") }

\* C13: cursor_paginated_scan on a configured instance of type single,
\* sentinel or cluster whose server answers returns error = None and the
\* keys of the batch.
C13_CursorScanOnEveryTopology ==
    ( /\ IsResultOf("cursor_paginated_scan")
      /\ InstanceType("single") \/ InstanceType("sentinel")
            \/ InstanceType("cluster")
      /\ ~Unreachable(result.dict) )
        => /\ result.dict.error = None
           /\ result.dict.keys = result.args.page_keys

\* the entries of a result dict that belong to offset mode / to cursor mode
OffsetFields == { "page", "total_pages", "total_keys" }
CursorFields == { "current_cursor", "next_cursor" }

\* C14 as claimed: no result of paginated_scan or cursor_paginated_scan has
\* both the offset-mode entries and the cursor-mode entries.
C14_NeverMixedShapes ==
    (IsResultOf("paginated_scan") \/ IsResultOf("cursor_paginated_scan")) =>
        ~(/\ OffsetFields \subseteq DOMAIN result.dict
          /\ CursorFields \subseteq DOMAIN result.dict)

\* C14 as amended: a result of paginated_scan has no cursor-mode entry; a
\* result of cursor_paginated_scan has the cursor-mode entries and, as
\* placeholders, the offset-mode entries: page = 1, total_pages = 1 (0 on an
\* error) and total_keys no larger than max(len(keys), per_page).
C14_ShapeByMode ==
    /\ IsResultOf("paginated_scan") =>
          /\ OffsetFields \subseteq DOMAIN result.dict
          /\ CursorFields \cap DOMAIN result.dict = {}
    /\ IsResultOf("cursor_paginated_scan") =>
          /\ CursorFields \subseteq DOMAIN result.dict
          /\ OffsetFields \subseteq DOMAIN result.dict
          /\ result.dict.page = 1
          /\ result.dict.total_pages =
                (IF result.dict.error = None THEN 1 ELSE 0)
          /\ result.dict.total_keys >= Len(result.dict.keys)
          /\ result.dict.total_keys
                <= Max(Len(result.dict.keys), result.dict.per_page)

C14_Witness ==
    /\ Succeeded("cursor_paginated_scan")
    /\ result.dict.current_cursor # 0
    /\ result.dict.page = 1
    /\ result.dict.total_keys > Len(result.dict.keys)

----------------------------------------------------------------------------
(* Mutations *)

\* the key the request was made on held, when the request started, a value
\* of another type than the function works on
OnOtherType(c) ==
    /\ c.op \in MemberOps
    /\ c.before[c.key_name].type \notin { "none", RequiredType(c) }

\* C15: a member-level mutation applied to an existing key of a different
\* type returns success = False and, no other client having written, leaves
\* the keyspace as it was, at its return and at every step before it; when no
\* command of it raised, its error is the function's own message naming the
\* key and the type it expected.
C15_TypeCheckedBeforeMutating ==
    /\ (OnOtherType(call) /\ walk.static) => db = call.before
    /\ (OnOtherType(result.args) /\ walk.static) =>
          /\ result.dict.success = FALSE
          /\ db = result.args.before
          /\ result.args.fault = "" =>
                result.dict.error = Some(KeyIsNotA(result.args))

C15_Witness ==
    /\ OnOtherType(result.args) /\ walk.static
    /\ result.args.fault = ""
    /\ result.op = "delete_list_item_by_index"
    /\ result.dict = Fail("Key 'b:1' is not a list")

\* the list without its element at the 0-based position i
WithoutIndex(L, i) == SubSeq(L, 1, i) \o SubSeq(L, i + 2, Len(L))

\* a call of delete_list_item_by_index on a list has returned, no command
\* of it raised and no other client wrote meanwhile
ListItemDeletion ==
    /\ result.op = "delete_list_item_by_index"
    /\ result.args.before[result.args.key_name].type = "list"
    /\ result.args.fault = ""
    /\ walk.static

\* C17: with no concurrent writer, delete_list_item_by_index(key, i) on a
\* list L of length n returns success for 0 <= i < n and leaves under the key
\* L without its element at position i (no key when that was the only
\* element); for i < 0 or i >= n it returns success = False with the
\* out-of-range error and the list is unchanged.  No other key changes.
C17_DeleteByIndex ==
    ListItemDeletion =>
        LET c == result.args
            L == c.before[c.key_name].list
        IN  /\ \A k \in KeyNames \ { c.key_name } : db[k] = c.before[k]
            /\ IF 0 <= c.index /\ c.index < Len(L)
               THEN /\ result.dict.success = TRUE
                    /\ db[c.key_name].list = WithoutIndex(L, c.index)
                    /\ Len(L) > 1 =>
                          db[c.key_name] =
                              [ c.before[c.key_name] EXCEPT
                                  !.list = WithoutIndex(L, c.index) ]
                    /\ Len(L) = 1 => ~Exists(c.key_name)
               ELSE /\ result.dict = Fail(IndexOutOfRange(c, Len(L)))
                    /\ db = c.before

\* the third element of a list whose first element is equal to it is deleted
C17_Witness ==
    /\ ListItemDeletion
    /\ result.args.index = 2
    /\ result.args.before[result.args.key_name].list
           = << "m3", "m1", "m3", "m2" >>
    /\ db[result.args.key_name].list = << "m3", "m1", "m2" >>
    /\ result.dict.success = TRUE

\* a call of create_key has returned, no command of it raised and no other
\* client wrote meanwhile
KeyCreation ==
    /\ result.op = "create_key"
    /\ result.args.fault = ""
    /\ walk.static

\* the value create_key is to leave under a new key of the given type
Created(type) ==
    CASE type = "string" ->
            [ type |-> "string", ttl |-> -1, str |-> "", list |-> <<>>,
              set |-> {}, zset |-> {}, hash |-> {} ]
      [] type = "list" ->
            [ type |-> "list", ttl |-> -1, str |-> "",
              list |-> << "[Edit or delete this placeholder item]" >>,
              set |-> {}, zset |-> {}, hash |-> {} ]
      [] type = "set" ->
            [ type |-> "set", ttl |-> -1, str |-> "", list |-> <<>>,
              set |-> { "[Edit or delete this placeholder member]" },
              zset |-> {}, hash |-> {} ]
      [] type = "zset" ->
            [ type |-> "zset", ttl |-> -1, str |-> "", list |-> <<>>,
              set |-> {},
              zset |-> { << "[Edit or delete this placeholder member]", 0 >> },
              hash |-> {} ]
      [] type = "hash" ->
            [ type |-> "hash", ttl |-> -1, str |-> "", list |-> <<>>,
              set |-> {}, zset |-> {},
              hash |-> { << "[placeholder_field]",
                            "[Edit or delete this placeholder field]" >> } ]

\* C18: create_key on a key that exists returns the "already exists" error
\* and changes nothing; for a type other than string, list, set, zset and
\* hash it returns success = False and creates no key; otherwise it returns
\* success and the key holds the empty string or exactly the one placeholder
\* element of the requested type (score 0 in a zset), every other key being
\* as before.
C18_CreateKey ==
    KeyCreation =>
        LET c == result.args
        IN  IF c.before[c.key_name].type # "none"
            THEN /\ result.dict = Fail(KeyAlreadyExists(c))
                 /\ db = c.before
            ELSE IF c.new_type \notin { "string", "list", "set", "zset", "hash" }
            THEN /\ result.dict.success = FALSE
                 /\ db = c.before
            ELSE /\ result.dict.success = TRUE
                 /\ db = [ c.before EXCEPT ![c.key_name] = Created(c.new_type) ]

C18_Witness ==
    /\ KeyCreation
    /\ result.args.new_type = "zset"
    /\ result.dict.success = TRUE
    /\ db[result.args.key_name].zset
          = { << "[Edit or delete this placeholder member]", 0 >> }

\* a call that deletes a member or field, or updates a field's value or a
\* member's score, has returned; the key held a collection of the function's
\* type without that member or field when the call started; no command of
\* the call raised and no other client wrote meanwhile
OnMissingMember ==
    LET c == result.args
    IN  /\ result.op \in { "delete_set_member", "delete_zset_member",
                           "delete_hash_field", "update_hash_field_value",
                           "update_zset_member_score" }
        /\ c.before[c.key_name].type = RequiredType(c)
        /\ c.member \notin c.before[c.key_name].set
        /\ \A p \in c.before[c.key_name].zset \cup c.before[c.key_name].hash :
              p[1] # c.member
        /\ c.fault = ""
        /\ walk.static

\* C19: deleting a set member, zset member or hash field that is not in the
\* collection, or updating the value of a hash field or the score of a zset
\* member that is not there, returns success = False with the function's
\* "does not exist" message, which is none of the messages of a failed
\* connection or of a missing key, and leaves the keyspace unchanged: an
\* update adds no field or member.
C19_MemberNotFound ==
    OnMissingMember =>
        /\ result.dict.success = FALSE
        /\ result.dict.error =
              Some(CASE result.op = "delete_set_member" ->
                          "Member does not exist in set"
                     [] result.op = "delete_zset_member" ->
                          "Member does not exist in sorted set"
                     [] result.op = "delete_hash_field" ->
                          "Field does not exist in hash"
                     [] result.op = "update_hash_field_value" ->
                          "Field '" \o result.args.member
                          \o "' does not exist in hash"
                     [] result.op = "update_zset_member_score" ->
                          "Member '" \o result.args.member
                          \o "' does not exist in sorted set")
        /\ db = result.args.before

C19_Witness ==
    /\ OnMissingMember
    /\ result.op = "update_zset_member_score"
    /\ result.dict = Fail("Member 'm6' does not exist in sorted set")

----------------------------------------------------------------------------
(* The key detail view *)

\* the request c is a POST to an instance on which the feature that the
\* posted action needs is disabled
PostedWhileDisabled(c) ==
    /\ c.instance_alias \in DOMAIN INSTANCES
    /\ \/ /\ c.action \in { "update_value" } \cup DOMAIN MemberActions
          /\ ~is_feature_enabled(c.instance_alias, "ALLOW_KEY_EDIT")
       \/ /\ c.action = "delete_key"
          /\ ~is_feature_enabled(c.instance_alias, "ALLOW_KEY_DELETE")
       \/ /\ c.action = "update_ttl"
          /\ ~is_feature_enabled(c.instance_alias, "ALLOW_TTL_UPDATE")

\* C16: a POST whose action needs a feature that is disabled for the instance
\* (ALLOW_KEY_EDIT for update_value and the member actions, ALLOW_KEY_DELETE
\* for delete_key, ALLOW_TTL_UPDATE for update_ttl) changes nothing in Redis,
\* at any step and at its return: no other client having written, the
\* keyspace is as it was when the request started.  When the key was found
\* and read, the page shows the action's "disabled for this instance" error
\* and no success message.
C16_DisabledFeatureChangesNothing ==
    /\ (PostedWhileDisabled(call) /\ walk.static) => db = call.before
    /\ (result.op = "post" /\ PostedWhileDisabled(result.args) /\ walk.static)
          => /\ db = result.args.before
             /\ (result.dict.status = 200 /\ result.args.fault = "") =>
                   /\ result.dict.success_message = None
                   /\ result.dict.error_message =
                         Some(CASE result.args.action = "delete_key" ->
                                     "Key deletion is disabled for this instance"
                                [] result.args.action = "update_ttl" ->
                                     "TTL updates are disabled for this instance"
                                [] OTHER ->
                                     "Key editing is disabled for this instance")

\* deleting is refused on the instance that has no setting for it
C16_Witness ==
    /\ result.op = "post" /\ walk.static
    /\ result.args.instance_alias = "local"
    /\ result.args.action = "delete_key"
    /\ Exists(result.args.key_name)
    /\ result.dict = Response(200, None,
                         Some("Key deletion is disabled for this instance"))

----------------------------------------------------------------------------
(* A key deleted while it is read *)

\* a call of get_paginated_key_data to an instance it can connect to has
\* returned, and the other client deleted the key while the call was running
DeletedWhileRead ==
    /\ result.op = "get_paginated_key_data"
    /\ get_redis_connection(result.args.instance_alias) = "ok"
    /\ result.args.key_name \in result.args.lost

\* C20: when another client deletes the key at any point while
\* get_paginated_key_data is running, the call returns the not-found shape:
\* exists = False, value = None, and no error.
C20_DeletedMidReadIsNotFound ==
    DeletedWhileRead =>
        /\ result.dict.exists = FALSE
        /\ result.dict.value = None
        /\ result.dict.error = None

----------------------------------------------------------------------------
(* Features and page ranges *)

\* C21: is_feature_enabled(alias, name) is the value of name among the
\* instance's features when the instance defines it, whatever the global
\* setting says; otherwise the global setting of name; otherwise False; and
\* False for an alias that is not configured.
C21_FeaturePrecedence ==
    result.op = "is_feature_enabled" =>
        LET c == result.args
            instances == c.panel_settings.INSTANCES
            own == IF c.instance_alias \in DOMAIN instances
                      /\ "features" \in DOMAIN instances[c.instance_alias]
                   THEN instances[c.instance_alias].features
                   ELSE << >>
        IN  result.dict.returned =
               CASE c.instance_alias \notin DOMAIN instances -> FALSE
                 [] c.instance_alias \in DOMAIN instances
                    /\ c.feature_name \in DOMAIN own -> own[c.feature_name]
                 [] c.instance_alias \in DOMAIN instances
                    /\ c.feature_name \notin DOMAIN own
                    /\ c.feature_name \in DOMAIN c.panel_settings ->
                       c.panel_settings[c.feature_name]
                 [] OTHER -> FALSE

\* the instance disables what the global settings enable
C21_Witness ==
    /\ result.op = "is_feature_enabled"
    /\ result.args.instance_alias = "local"
    /\ result.args.feature_name = "ALLOW_KEY_EDIT"
    /\ result.args.panel_settings =
          [ ALLOW_KEY_EDIT |-> TRUE,
            INSTANCES |-> [ local |->
                [ type |-> "single",
                  features |-> [ ALLOW_KEY_EDIT |-> FALSE ] ] ] ]
    /\ result.dict.returned = FALSE

\* the limit that the settings give an instance: its own value, else the
\* global one, else the default
ConfiguredLimit(instance_alias, name, default) ==
    IF name \in DOMAIN INSTANCES[instance_alias]
    THEN INSTANCES[instance_alias][name]
    ELSE IF name \in DOMAIN PANEL_SETTINGS THEN PANEL_SETTINGS[name]
    ELSE default

\* C22: the iteration cap of paginated_scan is the one configured for the
\* instance: a call issues no more SCAN commands than the instance's
\* MAX_SCAN_ITERATIONS, taken from the instance, else from the global
\* settings, else the default.
C22_CapsResolvedPerInstance ==
    (result.op = "paginated_scan"
     /\ result.args.instance_alias \in DOMAIN INSTANCES)
        => result.args.scan_iterations
              <= ConfiguredLimit(result.args.instance_alias,
                                 "MAX_SCAN_ITERATIONS", max_scan_iterations)

----------------------------------------------------------------------------
(* Strings and pages of collections *)

\* a get_paginated_key_data call on a string that the other client left
\* alone has returned without an error
StringRead ==
    /\ Succeeded("get_paginated_key_data")
    /\ walk.static
    /\ db[result.args.key_name].type = "string"

\* C23: for a string key, get_paginated_key_data returns is_paginated =
\* False, has_more = False and the whole value, whatever the length of the
\* value and the threshold, with a page as with a cursor.
C23_StringsNeverPaginated ==
    StringRead =>
        /\ result.dict.type = Some("string")
        /\ result.dict.is_paginated = FALSE
        /\ result.dict.has_more = FALSE
        /\ result.dict.value = Some(db[result.args.key_name].str)

\* a string of six bytes read with a cursor under a threshold below six
C23_Witness ==
    /\ StringRead
    /\ result.args.use_cursor_pagination
    /\ result.dict.size = 6
    /\ result.dict.size > result.args.pagination_threshold
    /\ result.dict.value = Some("h\\xe9llo")
    /\ ~result.dict.is_paginated

\* the same page was requested twice, both calls returned without an error
\* and the other client wrote nothing from the first call to the second
ScannedTwice ==
    /\ walk.kind = "scan_again" /\ walk.done
    /\ Len(walk.acc) = 2
    /\ ~walk.failed /\ walk.static

\* C24: two paginated_scan calls with the same instance, pattern, page and
\* per_page on a keyspace that is not modified in between return the same
\* keys in the same order, and the same total_keys.
C24_ScanIdempotent ==
    ScannedTwice =>
        /\ walk.acc[1].keys = walk.acc[2].keys
        /\ walk.acc[1].total_keys = walk.acc[2].total_keys

\* the request c is a POST of a member action to a configured instance for a
\* key that did not exist when the request started
MemberPostOnMissingKey(c) ==
    /\ c.action \in DOMAIN MemberActions
    /\ c.instance_alias \in DOMAIN INSTANCES
    /\ c.before[c.key_name].type = "none"

\* C25: a POST of an add, delete or update member action for a key that does
\* not exist changes nothing in Redis, at any step and at its return: the
\* key is not created and no other key is modified.  The response is 404
\* when Redis answered the view's commands.
C25_MemberPostOnMissingKey ==
    /\ (call.action # "" /\ MemberPostOnMissingKey(call) /\ walk.static)
          => db = call.before
    /\ (result.op = "post" /\ MemberPostOnMissingKey(result.args)
           /\ walk.static)
          => /\ db = result.args.before
             /\ result.args.fault = "" => result.dict.status = 404

\* an add and a delete answered with 404 for a key that does not exist
C25_Witness ==
    /\ result.op = "post"
    /\ MemberPostOnMissingKey(result.args)
    /\ result.args.action \in { "add_set_member", "delete_hash_field" }
    /\ result.args.fault = ""
    /\ result.dict.status = 404
    /\ db = result.args.before
    /\ walk.static

\* _get_page_range has returned
PageRangeReturned == result.op = "_get_page_range"

\* the page numbers of a page range, the "..." entries left out
PageNumbers(range) == SelectSeq(range, LAMBDA e : e # None)

\* C26: _get_page_range(current, total) is [1..total] for total <= 10,
\* whatever current is.  For total > 10 and 1 <= current <= total it is the
\* pages max(1, current-5)..min(total, current+5), with 1 and "..." before
\* them when page 1 is not among them, and "..." and total after them when
\* the last page is not among them; the page numbers increase strictly and
\* page 1, the current page and the last page are among them.
C26_PageRange ==
    PageRangeReturned =>
        LET current == result.args.page
            total == result.args.total_pages
            range == result.dict.returned
            lo == Max(1, current - 5)
            hi == Min(total, current + 5)
            window == [ i \in 1..(hi - lo + 1) |-> Some(lo + i - 1) ]
            before == IF lo > 1 THEN << Some(1), None >> ELSE << >>
            after == IF hi < total THEN << None, Some(total) >> ELSE << >>
            numbers == PageNumbers(range)
        IN  /\ total <= 10 => range = [ i \in 1..total |-> Some(i) ]
            /\ (total > 10 /\ 1 <= current /\ current <= total) =>
                  /\ range = before \o window \o after
                  /\ \A i, j \in DOMAIN numbers :
                        i < j => numbers[i][1] < numbers[j][1]
                  /\ { Some(1), Some(current), Some(total) }
                        \subseteq Range(range)

\* a page in the middle of more than ten: both "..." are there
C26_Witness ==
    /\ PageRangeReturned
    /\ result.args.total_pages > 10
    /\ result.args.page = 7
    /\ result.dict.returned[2] = None
    /\ result.dict.returned[Len(result.dict.returned) - 1] = None
    /\ Len(result.dict.returned) = 15

\* C27: one paginated_scan call sends at most max_scan_iterations SCAN
\* commands, and sends no SCAN after a reply with cursor 0 or after the
\* accumulated keys have reached the key cap: the loop ends, whichever
\* cursors the server returns.
C27_ScanLoopBounded ==
    /\ call.op = "paginated_scan" =>
          /\ call.scan_iterations <= max_scan_iterations
          /\ (call.pc = "scan" /\ call.scan_iterations > 0) =>
                /\ call.cursor # 0
                /\ Len(call.all_keys) < max_keys_paginated_scan
                /\ call.scan_iterations < max_scan_iterations
    /\ Succeeded("paginated_scan") =>
          /\ result.args.scan_iterations \in 1..max_scan_iterations
          /\ result.args.scan_iterations < max_scan_iterations =>
                \/ result.args.cursor = 0
                \/ Len(result.args.all_keys) >= max_keys_paginated_scan

\* a scan that the iteration cap ended: the server's cursor had not come back
\* to 0 and the keys were fewer than the key cap
C27_Witness ==
    /\ Succeeded("paginated_scan")
    /\ result.args.scan_iterations = max_scan_iterations
    /\ result.args.cursor # 0
    /\ Len(result.args.all_keys) < max_keys_paginated_scan

\* n is the least number of pages of per_page entries that hold total entries
IsCeilingOf(n, total, per_page) ==
    /\ n * per_page >= total
    /\ (n - 1) * per_page < total

\* C28: a successful paginated_scan result has total_pages =
\* ceil(total_keys / per_page), and 1 when total_keys = 0; has_more =
\* (page < total_pages); at most per_page keys; and details only of keys that
\* are in keys.
C28_ScanPageArithmetic ==
    Succeeded("paginated_scan") =>
        LET d == result.dict
        IN  /\ d.total_keys = 0 => d.total_pages = 1
            /\ d.total_keys > 0 =>
                  IsCeilingOf(d.total_pages, d.total_keys, d.per_page)
            /\ d.has_more <=> (d.page < d.total_pages)
            /\ Len(d.keys) <= d.per_page
            /\ DetailKeys(d) \subseteq Range(d.keys)

\* the last page of three keys in pages of two
C28_Witness ==
    /\ Succeeded("paginated_scan")
    /\ result.dict.total_keys = 3 /\ result.dict.per_page = 2
    /\ result.dict.page = 2 /\ result.dict.total_pages = 2
    /\ Len(result.dict.keys) = 1
    /\ ~result.dict.has_more
    /\ DetailKeys(result.dict) = Range(result.dict.keys)

\* the elements of a list or sorted set in the server's order
CurrentOrder(k) ==
    IF db[k].type = "list" THEN db[k].list ELSE ZsetOrder(db[k].zset)

\* the entries of a sequence at the indexes from..to, counted from 0, as far
\* as the sequence has them
AtIndexes(s, from, to) ==
    [ i \in 1..Max(0, Min(to + 1, Len(s)) - from) |-> s[from + i] ]

\* page `page` of a paginated key of one of the types was read in page mode,
\* without an error and without a write of the other client
PageRead(types) ==
    /\ CollectionRead
    /\ ~result.args.use_cursor_pagination
    /\ result.dict.is_paginated
    /\ result.dict.page >= 1
    /\ db[result.args.key_name].type \in types

\* C29: page p of a paginated list or sorted set in page mode is the elements
\* at the indexes (p-1)*per_page .. p*per_page-1 of the current order;
\* total_pages = ceil(size / per_page); the page has a next page iff
\* p < total_pages and a previous page iff p > 1.
C29_OrderedPage ==
    PageRead({ "list", "zset" }) =>
        LET d == result.dict
            order == CurrentOrder(result.args.key_name)
            context == PaginationContext(d, FALSE)
        IN  /\ d.value = Some(AtIndexes(order, (d.page - 1) * d.per_page,
                                        d.page * d.per_page - 1))
            /\ IsCeilingOf(d.total_pages, Len(order), d.per_page)
            /\ context.has_next <=> (d.page < d.total_pages)
            /\ context.has_previous <=> (d.page > 1)

\* a page in the middle of a sorted set: one before it, one after it
C29_Witness ==
    /\ PageRead({ "zset" })
    /\ result.dict.page = 2 /\ result.dict.total_pages >= 3
    /\ Len(result.dict.value[1]) = result.dict.per_page
    /\ PaginationContext(result.dict, FALSE).has_next
    /\ PaginationContext(result.dict, FALSE).has_previous

\* the members of a set, or the field/value pairs of a hash, and the name an
\* entry is sorted by: the member, or the field
Entries(k) == IF db[k].type = "set" THEN db[k].set ELSE db[k].hash
SortName(k, e) == IF db[k].type = "set" THEN e ELSE e[1]

\* v is the entries number from+1, from+2, ... of S in the order of their
\* names, as many of the next per_page as S has
IsSortedSlice(v, k, from, per_page) ==
    LET S == Entries(k)
    IN  /\ Len(v) = Max(0, Min(per_page, Cardinality(S) - from))
        /\ \A i \in DOMAIN v :
              /\ v[i] \in S
              /\ Cardinality({ e \in S :
                                 Rank(SortName(k, e)) < Rank(SortName(k, v[i])) })
                    = from + i - 1

\* C30: page p of a static set or hash above the threshold in page mode is
\* the slice [(p-1)*per_page, p*per_page) of the members sorted, or of the
\* field/value pairs sorted by field; so a page that is not the last has
\* per_page entries, and the pages 1..total_pages hold every entry once.
C30_SortedSlicePages ==
    /\ PageRead({ "set", "hash" }) =>
          /\ IsSortedSlice(result.dict.value[1], result.args.key_name,
                           (result.dict.page - 1) * result.dict.per_page,
                           result.dict.per_page)
          /\ result.dict.has_more =>
                Len(result.dict.value[1]) = result.dict.per_page
    /\ CollectionWalkDone({ "coll_pages" }, { "set", "hash" }) =>
          /\ Range(walk.acc) = Entries(result.args.key_name)
          /\ Len(walk.acc) = Cardinality(Entries(result.args.key_name))

----------------------------------------------------------------------------
(* Two clients *)

\* C31: delete_list_item_by_index is two commands: the step that sends LSET
\* leaves the marker in the list at the index and the request in flight,
\* LREM still to come; what another client reads then holds the marker.
C31_DeleteIsTwoCommands ==
    [][ ( /\ call.op = "delete_list_item_by_index" /\ call.pc = "m_write"
          /\ call' # call
          /\ db' # db )
        => /\ call'.pc = "m_lrem"
           /\ db'[call.key_name].list[call.index + 1] = DeleteMarker ]_vars

\* the second client has read the list between LSET and LREM and has the
\* marker in its reply
C31_Witness ==
    /\ call.op = "delete_list_item_by_index" /\ call.pc = "m_lrem"
    /\ \E i \in DOMAIN other.seen :
          /\ other.seen[i] = DeleteMarker
          /\ i = call.index + 1
    /\ db[call.key_name].list = other.seen

\* what pushes of the second client to the head of a list and pops from it
\* can make of the list L: some pushed values, then a tail of L
PushedAndPopped(L) ==
    { [ i \in 1..a |-> OtherValue ] \o SubSeq(L, b + 1, Len(L)) :
        a \in 0..MaxDisturbances, b \in 0..Len(L) }

\* C32: a delete_list_item_by_index(key, i) call that returns success has
\* removed the element that was at position i when LLEN validated the index
\* and no other: the list is the validated list without that element, but
\* for what the second client pushed and popped itself between the commands.
C32_DeletesTheValidatedElement ==
    ( /\ result.op = "delete_list_item_by_index"
      /\ result.dict.success )
    => db[result.args.key_name].list
         \in PushedAndPopped(WithoutIndex(result.args.validated,
                                          result.args.index))

\* both create_key requests for the name have returned
BothCreatesReturned ==
    /\ result.op = "create_key"
    /\ other.pc = "done"
    /\ other.key_name = result.args.key_name

\* C33: of two concurrent create_key requests for a name that does not
\* exist, at most one returns success; and no step replaces or modifies a
\* key that exists.
C33_CreateNeverOverwrites ==
    /\ [](( /\ BothCreatesReturned
            /\ result.args.before[result.args.key_name].type = "none" )
          => ~(result.dict.success /\ other.returned[1].success))
    /\ [][ \A k \in KeyNames : Exists(k) => db'[k] = db[k] ]_vars

----------------------------------------------------------------------------
(* The key list at its edges *)

\* C34: paginated_scan returns no keys for a page <= 0 or > total_pages, and
\* for 1 <= page <= total_pages the slice [(page-1)*per_page, page*per_page)
\* of the sorted list of the accumulated keys.
C34_KeysOnlyInsideRange ==
    Succeeded("paginated_scan") =>
        LET d == result.dict
            sorted == result.args.all_keys
        IN  IF d.page <= 0 \/ d.page > d.total_pages
            THEN d.keys = << >>
            ELSE d.keys = AtIndexes(sorted, (d.page - 1) * d.per_page,
                                    d.page * d.per_page - 1)

\* C35: in every paginated_scan result limited_scan = true implies
\* scan_complete = false: a scan whose cursor came back to 0 is not reported
\* as cut short by the key cap.
C35_LimitedMeansIncomplete ==
    IsResultOf("paginated_scan") =>
        (result.dict.limited_scan => ~result.dict.scan_complete)

\* a cursor walk of the key list, from cursor 0 along next_cursor while
\* has_more, has ended without an error on a keyspace nobody wrote to
CursorWalkDone ==
    /\ walk.kind = "scan_cursor" /\ walk.done
    /\ ~walk.failed /\ walk.static
    /\ result.op = "cursor_paginated_scan"

\* C36: the cursor walk of a static keyspace has returned every key that
\* matches the pattern on one page at least when has_more becomes false.
C36_CursorWalkMissesNoKey ==
    CursorWalkDone =>
        MatchingKeys(result.args.pattern) \subseteq Range(walk.acc)

\* get_paginated_key_data has returned a page of a list or sorted set that
\* was read with a cursor
IndexCursorPageRead ==
    /\ Succeeded("get_paginated_key_data")
    /\ result.args.use_cursor_pagination
    /\ result.dict.is_paginated
    /\ result.dict.type \in { Some("list"), Some("zset") }

\* C37: a cursor-mode page of a list or sorted set that reports has_more has
\* next_cursor > cursor, also when another client makes the collection
\* shorter or longer between the call's size read and its range read.
C37_CursorAdvances ==
    (IndexCursorPageRead /\ result.dict.has_more)
        => result.dict.next_cursor > result.dict.cursor

----------------------------------------------------------------------------
(* The loops without a cap *)

SetPageRead ==
    /\ Succeeded("get_paginated_key_data")
    /\ ~result.args.use_cursor_pagination
    /\ result.dict.is_paginated
    /\ result.dict.type = Some("set")

\* the SSCAN loop sends one command for each cursor the server hands out
\* and stops at the first cursor 0, and at nothing else.
SScanLoopFollowsServer ==
    (SetPageRead /\ result.args.lost = {})
        => /\ result.args.scan_cursor = 0
           /\ result.args.sscan_calls = nbuckets

----------------------------------------------------------------------------
(* The gaps of the page range *)

\* C39: in the list returned by _get_page_range, for total_pages >= 1 and
\* 1 <= current <= total_pages, every "..." stands between two page numbers
\* that differ by more than 1, and no two "..." are adjacent.
C39_EllipsisOmitsPages ==
    ( /\ PageRangeReturned
      /\ result.args.total_pages >= 1
      /\ 1 <= result.args.page
      /\ result.args.page <= result.args.total_pages ) =>
        LET range == result.dict.returned
        IN  \A i \in DOMAIN range :
               range[i] = None =>
                  /\ 1 < i /\ i < Len(range)
                  /\ range[i - 1] # None /\ range[i + 1] # None
                  /\ range[i + 1][1] - range[i - 1][1] > 1

====
